---- MODULE Spec2Model ----
(***************************************************************************)
(* Cross-chain statistics engine of poly-bridge                            *)
(* (src/crosschainstats/crosschainstats.go).                               *)
(*                                                                         *)
(* The persistent store and the ledgers are the state. Every pass Start    *)
(* launches on the statistic tables (computeStats,                         *)
(* computeTokenStatistics, computeChainStatistics,                         *)
(* computeChainStatisticAssets, computeAssetStatistics,                    *)
(* computeAssetStatisticAdress) takes one step per call of a collaborator, *)
(* the steps interleaved with those of the other goroutines and with the   *)
(* arrival of records. The outcome of a call (the query or the save        *)
(* returns an error or not) is an input of the step that makes the call.   *)
(* The bridgedao package is not part of the sources: its queries are       *)
(* modelled from the interface the specification gives for them            *)
(* (highestId, sumAndCountInRange, loadCategory, upsertRow).               *)
(***************************************************************************)
EXTENDS Integers, Sequences, FiniteSets, TLC

(* ------------------------------------------------------------------ *)
(* Bounds                                                             *)
(* ------------------------------------------------------------------ *)

\* Records a ledger stream set may hold in total (per specification).
MaxRecords == 2

\* A raw amount below one storage unit of a precision-3 token, and one above.
SmallAmount == 5

LargeAmount == 250

\* A transfer timestamp that can coincide with a record Id, and one that cannot.
LowTime == 1

HighTime == 9

\* The goroutines Start launches that the scheduler follows.
NumTasks == 4

\* The answers of the chain node drawn for one fetch with retry.
MaxAnswers == 6

\* The runs of checkTxs followed.
MaxRuns == 3

\* The calls of the store that return an error in one behaviour.
MaxFaults == 1

\* The keys a catalog, its ledgers and its table come to know in one behaviour.
MaxKeys == 2

\* The calls that may return an error in a behaviour of the token pass: the
\* pass folds a row only after a failed lookup (line 251), so a pass that folds
\* a row and meets another error needs two.
MaxTokenFaults == 2

(* ------------------------------------------------------------------ *)
(* Program constants                                                  *)
(* ------------------------------------------------------------------ *)

POLY_CROSSCHAIN_ID == 0

ETHEREUM_CROSSCHAIN_ID == 2

BSC_CROSSCHAIN_ID == 6

HECO_CROSSCHAIN_ID == 7

O3_CROSSCHAIN_ID == 10

OK_CROSSCHAIN_ID == 12

\* basedef.MATIC_CROSSCHAIN_ID: a chain id apart from the others.
MATIC_CROSSCHAIN_ID == 17

\* The chain ids the catalog (table chains) may hold.
ChainIds == {POLY_CROSSCHAIN_ID, ETHEREUM_CROSSCHAIN_ID, BSC_CROSSCHAIN_ID}

\* The token basics the catalog (table token_basics) may hold: a fungible
\* one with tokens, a non-fungible one (Standard = 1) with tokens, and a
\* fungible one that has no token yet.
BasicNames == {"USDT", "PNFT", "NEW"}

\* TokenBasic.Standard
StandardOf(n) == IF n = "PNFT" THEN 1 ELSE 0

\* len(TokenBasic.Tokens) > 0
HasTokens(n) == n # "NEW"

\* TokenBasic.Precision
PrecisionOf(n) == IF n = "USDT" THEN 3 ELSE 0

\* The tokens the catalog (table tokens) may hold, as (chain id, asset hash):
\* a fungible asset on two chains and a non-fungible one (Standard = 1).
TokenIds == {[chainId |-> ETHEREUM_CROSSCHAIN_ID, hash |-> "usdt"],
             [chainId |-> BSC_CROSSCHAIN_ID, hash |-> "usdt"],
             [chainId |-> ETHEREUM_CROSSCHAIN_ID, hash |-> "pnft"]}

\* Token.Standard
TokenStandard(t) == IF t.hash = "pnft" THEN 1 ELSE 0

\* The aggregation categories, one task each.
Categories == {"chain", "asset", "basic", "token"}

\* The raw amounts a transfer may carry.
Amounts == {SmallAmount, LargeAmount}

\* The timestamps a transfer may carry.
Times == {LowTime, HighTime}

VARIABLES
    chains,      \* catalog: the chain ids GetChains returns
    dstTxn,      \* dst_transactions: dstTxn[i] is the chain id of the record with Id i
    srcTxn,      \* src_transactions: likewise
    polyTxn,     \* poly_transactions: the highest Id (relay records carry no key)
    chainStat,   \* chain_statistics: chain id -> row, for the rows that exist
    basics,      \* catalog: the token basic names GetTokenBasics returns
    srcTransfer, \* src_transfers: the record with Id i is srcTransfer[i]
    assetStat,   \* asset_statistics: token basic name -> row, for the rows that exist
    tokenBasic,  \* token_basics: the statistic columns of each token basic
    tokens,      \* catalog: the tokens GetTokens returns
    dstTransfer, \* dst_transfers: the record with Id i is dstTransfer[i]
    tokenStat,   \* token_statistics: token -> row, for the rows that exist
    crashed,     \* the process has died of a panic
    category,    \* the aggregation category this behaviour follows
    op,          \* the last operation and the outcome of its collaborator calls
    started,     \* Start has launched the goroutines
    taskPc,      \* where each goroutine of Start is in run
    inflight,    \* the calls of its pass function each goroutine has not returned from
    cancelled,   \* the shared context is cancelled (Done is closed)
    wg,          \* the counter of the wait group
    stopPc,      \* where the caller of Stop is
    faults,      \* the calls of a collaborator that may still return an error
    chainTask,   \* the locals of computeChainStatistics between two calls of the store
    addrTask,    \* the locals of computeChainStatisticAssets, likewise
    assetTask,   \* the locals of computeAssetStatistics, likewise
    adressTask,  \* the locals of computeAssetStatisticAdress, likewise
    basicTask,   \* the locals of computeStats, likewise
    tokenTask,   \* the locals of computeTokenStatistics, likewise
    alarmTask,   \* the locals of startCheckAssetAlarm, likewise
    funTask,     \* the locals of the function under check, likewise
    funIn,       \* the function under check on its own, and its arguments
    funOut       \* what the function returned

chainVars == <<chains, dstTxn, srcTxn, polyTxn, chainStat>>

assetVars == <<basics, srcTransfer, assetStat, tokenBasic>>

tokenVars == <<tokens, dstTransfer, tokenStat, crashed>>

statsVars == <<chainVars, assetVars, tokenVars, category, faults, op>>

\* The scheduler: the position of each goroutine of Start, the context, the
\* wait group, the position of Stop.
Tasks == 1..NumTasks

runVars == <<started, taskPc, inflight, cancelled, wg, stopPc>>

\* The passes that run as concurrent goroutines, call by call.
passVars == <<chainTask, addrTask, assetTask, adressTask, basicTask, tokenTask,
              alarmTask, funTask>>

\* The inputs and the results of the functions checked on their own.
funVars == <<funIn, funOut>>

vars == <<statsVars, runVars, passVars, funVars>>

\* What no step of a pass changes: the ledgers, the catalogs, the tables of the
\* other categories, the scheduler.
frameVars == <<chains, dstTxn, srcTxn, polyTxn, basics, srcTransfer, tokenBasic,
               tokenVars, category, runVars, funVars, basicTask, tokenTask,
               alarmTask, funTask>>

(* ------------------------------------------------------------------ *)
(* Helpers                                                            *)
(* ------------------------------------------------------------------ *)

\* addDecimalInt64: both operands as decimals, added, integer part.
addDecimalInt64(a, b) == a + b

\* Number of records of seq with key k and Id in (lo, hi].
CountKey(seq, k, lo, hi) ==
    Cardinality({i \in 1..Len(seq) : i > lo /\ i <= hi /\ seq[i] = k})

\* Sum of the amounts of the records of seq with name k and Id in (lo, hi].
RECURSIVE SumAmount(_, _, _, _)
SumAmount(seq, k, lo, hi) ==
    IF hi <= lo \/ hi < 1 THEN 0
    ELSE (IF hi <= Len(seq) /\ seq[hi].name = k THEN seq[hi].amount ELSE 0)
         + SumAmount(seq, k, lo, hi - 1)

\* Number of records of seq with name k and Id in (lo, hi].
CountName(seq, k, lo, hi) ==
    Cardinality({i \in 1..Len(seq) : i > lo /\ i <= hi /\ seq[i].name = k})

\* 10^n, the value of decimal.New(1, n).
RECURSIVE Pow10(_)
Pow10(n) == IF n = 0 THEN 1 ELSE 10 * Pow10(n - 1)

\* The orders in which the elements of a set can be listed.
Perms(S) ==
    {f \in [1..Cardinality(S) -> S] : \A i, j \in 1..Cardinality(S) : f[i] = f[j] => i = j}

\* The elements of a sequence.
Range(f) == {f[i] : i \in DOMAIN f}

\* The sum of f over the keys of S.
RECURSIVE SumOver(_, _)
SumOver(f, S) ==
    IF S = {} THEN 0
    ELSE LET k == CHOOSE x \in S : TRUE IN f[k] + SumOver(f, S \ {k})

\* The outcomes of a call of the store: it returns an error or it does not.
ErrOutcomes == IF faults > 0 THEN BOOLEAN ELSE {FALSE}

\* The errors left once a call has returned.
Spend(err) == IF err THEN faults - 1 ELSE faults

\* The operation record of a step of the environment.
EnvOp == [name |-> "env", abort |-> FALSE, repeat |-> FALSE, quiet |-> FALSE,
          qfail |-> {}, sfail |-> {}, attempted |-> {}, listed |-> {}]

\* A pass every collaborator call of which succeeded.
CleanPass(o) == ~o.abort /\ o.qfail = {} /\ o.sfail = {}

\* The pass of category c now starting follows a completed pass of c directly:
\* every call of that pass succeeded, and nothing arrived in the ledgers or
\* changed in the catalog since it began.
Repeats(c) == op.name = c /\ CleanPass(op) /\ op.quiet

\* The operation record while a pass is under way: a step of the environment
\* replaces it.
BeginOp(c) == [EnvOp EXCEPT !.name = "begin", !.repeat = Repeats(c)]

\* Nothing arrived or changed since the pass under way began.
PassQuiet == op.name = "begin"

\* The operation record of a pass that returns.
EndOp(c, abort, qfail, sfail, attempted, listed) ==
    [name |-> c, abort |-> abort, repeat |-> PassQuiet /\ op.repeat,
     quiet |-> PassQuiet, qfail |-> qfail, sfail |-> sfail,
     attempted |-> attempted, listed |-> listed]

(* ------------------------------------------------------------------ *)
(* bridgedao queries used by the chain pass                           *)
(* ------------------------------------------------------------------ *)

\* GetNewDstTransaction().Id / GetNewSrcTransaction().Id / GetPolyTransaction().Id
HighestDstTxnId == Len(dstTxn)

HighestSrcTxnId == Len(srcTxn)

HighestPolyTxnId == polyTxn

\* The row GetNewChainSta may return: a stored row whose cursors refer to the
\* source/destination streams (any chain but the relay chain); a zero row
\* while there is none.
ZeroChainRow == [In |-> 0, Out |-> 0, Addresses |-> 0,
                 LastInCheckId |-> 0, LastOutCheckId |-> 0]

GetNewChainSta ==
    LET ks == DOMAIN chainStat \ {POLY_CROSSCHAIN_ID}
    IN  IF ks = {} THEN {ZeroChainRow} ELSE {chainStat[k] : k \in ks}

\* The entries a grouped query returns: one per chain with a count above zero.
GroupedEntries(count(_)) == [k \in {c \in ChainIds : count(c) > 0} |-> count(k)]

\* The count of the entry of chain k, 0 when the list holds none (the inner
\* loops of lines 376-387 and 428-434 find no match).
EntryOf(entries, k) == IF k \in DOMAIN entries THEN entries[k] ELSE 0

\* CalculateInChainStatistics(lastId, nowId): per chain, the count of
\* destination records with Id in (lastId, nowId].
CalculateInChainStatistics(lastId, nowId) ==
    LET count(k) == CountKey(dstTxn, k, lastId, nowId) IN GroupedEntries(count)

\* CalculateOutChainStatistics(lastId, nowId): likewise over source records.
CalculateOutChainStatistics(lastId, nowId) ==
    LET count(k) == CountKey(srcTxn, k, lastId, nowId) IN GroupedEntries(count)

\* CalculatePolyChainStatistic(lastId, nowId): relay records with Id in (lastId, nowId].
CalculatePolyChainStatistic(lastId, nowId) ==
    IF nowId > lastId THEN nowId - lastId ELSE 0

\* CalculateChainStatisticAssets: per chain, the number of distinct addresses
\* of its transactions (here every transaction has an address of its own).
CalculateChainStatisticAssets ==
    LET count(k) == CountKey(dstTxn, k, 0, Len(dstTxn)) + CountKey(srcTxn, k, 0, Len(srcTxn))
    IN  GroupedEntries(count)

\* SaveChainStatistics(rows): every row of the list replaces the stored row
\* of its chain, all columns.
SaveChainStatistics(rows) ==
    [k \in DOMAIN chainStat \cup DOMAIN rows |->
        IF k \in DOMAIN rows THEN rows[k] ELSE chainStat[k]]

(* ------------------------------------------------------------------ *)
(* computeChainStatistics: each call of the store is one step          *)
(* ------------------------------------------------------------------ *)

\* Lines 365-371: the row appended for a catalog chain that has none.
NewChainStatistic(nowInId, nowOutId) ==
    [In |-> 0, Out |-> 0, Addresses |-> 0,
     LastInCheckId |-> nowInId, LastOutCheckId |-> nowOutId]

\* Lines 352-374: the rows GetChainStatistic returned, then a new row per
\* chain GetChains returned that has none.
ChainStatisticsList(rows, chs, nowInId, nowOutId) ==
    [k \in DOMAIN rows \cup chs |->
        IF k \in DOMAIN rows THEN rows[k]
        ELSE NewChainStatistic(nowInId, nowOutId)]

\* Lines 375-392: one row of the first loop. inD / outD are the deltas the two
\* range queries returned for this chain (0 when the query was not issued, failed,
\* or returned no entry for the chain).
FoldChainRow(k, row, inD, outD, nowInId, nowOutId) ==
    IF k # POLY_CROSSCHAIN_ID
    THEN [row EXCEPT !.In = addDecimalInt64(row.In, inD),
                     !.Out = addDecimalInt64(row.Out, outD),
                     !.LastInCheckId = nowInId,
                     !.LastOutCheckId = nowOutId]
    ELSE row

\* A relay fold that counts the relay stream from its start on every pass.
FoldPolyRow_FromStart(k, row, polyErr, polyCheckId) ==
    IF k = POLY_CROSSCHAIN_ID /\ ~polyErr
    THEN LET counter == CalculatePolyChainStatistic(0, polyCheckId)
         IN  [row EXCEPT !.In = addDecimalInt64(counter, row.In),
                         !.Out = addDecimalInt64(counter, row.Out),
                         !.LastInCheckId = polyCheckId,
                         !.LastOutCheckId = polyCheckId]
    ELSE row

\* Lines 394-406: the relay chain's row.
FoldPolyRow(k, row, polyErr, polyCheckId) ==
    IF k = POLY_CROSSCHAIN_ID /\ ~polyErr
    THEN LET counter == CalculatePolyChainStatistic(row.LastInCheckId, polyCheckId)
         IN  [row EXCEPT !.In = addDecimalInt64(counter, row.In),
                         !.Out = addDecimalInt64(counter, row.Out),
                         !.LastInCheckId = polyCheckId,
                         !.LastOutCheckId = polyCheckId]
    ELSE row

\* The locals of computeChainStatistics between two calls of the store: ref,
\* the cursors of nowChainStatistic; the three marks; the entries of the two
\* range queries; rows, chainStatistics as GetChainStatistic returned it; list,
\* chainStatistics as the loops have left it; qfail, the range queries that
\* returned an error so far.
IdleChainTask ==
    [pc |-> "idle", ref |-> [LastInCheckId |-> 0, LastOutCheckId |-> 0],
     nowInId |-> 0, nowOutId |-> 0, inD |-> <<>>, outD |-> <<>>, polyCheckId |-> 0,
     rows |-> <<>>, list |-> <<>>, qfail |-> {}]

\* Lines 327, 334, 345: the guards of the two range queries and of the fold.
InQueryIssued(t) == t.nowInId > t.ref.LastInCheckId

OutQueryIssued(t) == t.nowOutId > t.ref.LastOutCheckId

ChainFoldEntered(t) == InQueryIssued(t) \/ OutQueryIssued(t)

\* The pass returns: its locals are gone, and the outcome of its calls is the
\* last operation. keys: the rows handed to SaveChainStatistics.
ChainReturns(abort, qfail, sfail, keys) ==
    /\ chainTask' = IdleChainTask
    /\ op' = EndOp("chain", abort, qfail, sfail, keys, keys)

\* Lines 312-315.
computeChainStatistics_312 ==
    /\ category = "chain"
    /\ chainTask.pc = "idle"
    /\ \E err \in ErrOutcomes :
         /\ faults' = Spend(err)
         /\ IF err THEN ChainReturns(TRUE, {}, {}, {})
            ELSE \E nowChainStatistic \in GetNewChainSta :
                   /\ chainTask' =
                        [IdleChainTask EXCEPT
                           !.pc = "316",
                           !.ref = [LastInCheckId |-> nowChainStatistic.LastInCheckId,
                                    LastOutCheckId |-> nowChainStatistic.LastOutCheckId]]
                   /\ op' = BeginOp("chain")
    /\ UNCHANGED <<frameVars, chainStat, assetStat, addrTask, assetTask, adressTask>>

\* Lines 316-320.
computeChainStatistics_316 ==
    /\ chainTask.pc = "316"
    /\ \E err \in ErrOutcomes :
         /\ faults' = Spend(err)
         /\ IF err THEN ChainReturns(TRUE, {}, {}, {})
            ELSE /\ chainTask' = [chainTask EXCEPT !.pc = "321", !.nowInId = Len(dstTxn)]
                 /\ op' = op
    /\ UNCHANGED <<frameVars, chainStat, assetStat, addrTask, assetTask, adressTask>>

\* Where the pass goes after the call of line 321 or of line 328.
ChainAfter(t, done) ==
    IF done = "321" /\ InQueryIssued(t) THEN "328"
    ELSE IF OutQueryIssued(t) THEN "335"
    ELSE "340"

\* Lines 321-327.
computeChainStatistics_321 ==
    /\ chainTask.pc = "321"
    /\ \E err \in ErrOutcomes :
         /\ faults' = Spend(err)
         /\ IF err THEN ChainReturns(TRUE, {}, {}, {})
            ELSE LET t == [chainTask EXCEPT !.nowOutId = Len(srcTxn)]
                 IN  /\ chainTask' = [t EXCEPT !.pc = ChainAfter(t, "321")]
                     /\ op' = op
    /\ UNCHANGED <<frameVars, chainStat, assetStat, addrTask, assetTask, adressTask>>

\* Lines 328-334: the error is logged and the entries stay empty.
computeChainStatistics_328 ==
    /\ chainTask.pc = "328"
    /\ \E err \in ErrOutcomes :
         /\ faults' = Spend(err)
         /\ chainTask' =
              [chainTask EXCEPT
                 !.pc = ChainAfter(chainTask, "328"),
                 !.inD = IF err THEN <<>>
                         ELSE CalculateInChainStatistics(chainTask.ref.LastInCheckId,
                                                         chainTask.nowInId),
                 !.qfail = IF err THEN @ \cup {"in"} ELSE @]
    /\ UNCHANGED <<frameVars, chainStat, assetStat, op, addrTask, assetTask, adressTask>>

\* Lines 335-339.
computeChainStatistics_335 ==
    /\ chainTask.pc = "335"
    /\ \E err \in ErrOutcomes :
         /\ faults' = Spend(err)
         /\ chainTask' =
              [chainTask EXCEPT
                 !.pc = "340",
                 !.outD = IF err THEN <<>>
                          ELSE CalculateOutChainStatistics(chainTask.ref.LastOutCheckId,
                                                           chainTask.nowOutId),
                 !.qfail = IF err THEN @ \cup {"out"} ELSE @]
    /\ UNCHANGED <<frameVars, chainStat, assetStat, op, addrTask, assetTask, adressTask>>

\* Lines 340-346, and 412 when the fold is not entered.
computeChainStatistics_340 ==
    /\ chainTask.pc = "340"
    /\ \E err \in ErrOutcomes :
         /\ faults' = Spend(err)
         /\ IF err THEN ChainReturns(TRUE, {}, {}, {})
            ELSE IF ~ChainFoldEntered(chainTask)
            THEN ChainReturns(FALSE, chainTask.qfail, {}, {})
            ELSE /\ chainTask' = [chainTask EXCEPT !.pc = "348", !.polyCheckId = polyTxn]
                 /\ op' = op
    /\ UNCHANGED <<frameVars, chainStat, assetStat, addrTask, assetTask, adressTask>>

\* Lines 347-351.
computeChainStatistics_348 ==
    /\ chainTask.pc = "348"
    /\ \E err \in ErrOutcomes :
         /\ faults' = Spend(err)
         /\ IF err THEN ChainReturns(TRUE, {}, {}, {})
            ELSE /\ chainTask' = [chainTask EXCEPT !.pc = "353", !.rows = chainStat]
                 /\ op' = op
    /\ UNCHANGED <<frameVars, chainStat, assetStat, addrTask, assetTask, adressTask>>

\* Lines 353-395: the catalog is read, the new rows are appended, the first
\* loop folds the entries, the second loop looks for the relay chain's row.
computeChainStatistics_353 ==
    /\ chainTask.pc = "353"
    /\ \E err \in ErrOutcomes :
         /\ faults' = Spend(err)
         /\ IF err THEN ChainReturns(TRUE, {}, {}, {})
            ELSE LET t == chainTask
                     chainStatistics ==
                         ChainStatisticsList(t.rows, chains, t.nowInId, t.nowOutId)
                     folded ==
                         [k \in DOMAIN chainStatistics |->
                             FoldChainRow(k, chainStatistics[k], EntryOf(t.inD, k),
                                          EntryOf(t.outD, k), t.nowInId, t.nowOutId)]
                 IN  /\ chainTask' =
                           [t EXCEPT !.list = folded,
                                     !.pc = IF POLY_CROSSCHAIN_ID \in DOMAIN folded
                                            THEN "396" ELSE "407"]
                     /\ op' = op
    /\ UNCHANGED <<frameVars, chainStat, assetStat, addrTask, assetTask, adressTask>>

\* Lines 396-406: the relay counter; on an error the relay row stays as it is.
computeChainStatistics_396 ==
    /\ chainTask.pc = "396"
    /\ \E err \in ErrOutcomes :
         /\ faults' = Spend(err)
         /\ chainTask' =
              [chainTask EXCEPT
                 !.pc = "407",
                 !.list[POLY_CROSSCHAIN_ID] =
                     FoldPolyRow(POLY_CROSSCHAIN_ID, @, err, chainTask.polyCheckId),
                 !.qfail = IF err THEN @ \cup {"poly"} ELSE @]
    /\ UNCHANGED <<frameVars, chainStat, assetStat, op, addrTask, assetTask, adressTask>>

\* Lines 407-412: the rows are saved; an error is logged.
computeChainStatistics_407 ==
    /\ chainTask.pc = "407"
    /\ \E err \in ErrOutcomes :
         /\ faults' = Spend(err)
         /\ LET keys == DOMAIN chainTask.list
            IN  /\ chainStat' = IF err THEN chainStat ELSE SaveChainStatistics(chainTask.list)
                /\ ChainReturns(FALSE, chainTask.qfail, IF err THEN keys ELSE {}, keys)
    /\ UNCHANGED <<frameVars, assetStat, addrTask, assetTask, adressTask>>

(* ------------------------------------------------------------------ *)
(* computeChainStatisticAssets: each call of the store is one step     *)
(* ------------------------------------------------------------------ *)

\* The locals of computeChainStatisticAssets: counts, computeChainStatistics as
\* the query of line 417 filled it; rows, chainStatistics after the loops.
IdleAddrTask == [pc |-> "idle", counts |-> <<>>, rows |-> <<>>]

\* Lines 426-440: a row whose chain has an entry takes the entry's count, the
\* relay chain's row the sum of the counts taken; every other row is left.
SetAddresses(rows, counts) ==
    LET matched == {k \in DOMAIN rows : k \in DOMAIN counts /\ k # POLY_CROSSCHAIN_ID}
        polyAddress == SumOver(counts, matched)
    IN  [k \in DOMAIN rows |->
            IF k \in matched THEN [rows[k] EXCEPT !.Addresses = counts[k]]
            ELSE IF k = POLY_CROSSCHAIN_ID THEN [rows[k] EXCEPT !.Addresses = polyAddress]
            ELSE rows[k]]

\* Lines 417-420.
computeChainStatisticAssets_417 ==
    /\ category = "chain"
    /\ addrTask.pc = "idle"
    /\ \E err \in ErrOutcomes :
         /\ faults' = Spend(err)
         /\ addrTask' = IF err THEN IdleAddrTask
                        ELSE [IdleAddrTask EXCEPT !.pc = "422",
                                                  !.counts = CalculateChainStatisticAssets]
    /\ UNCHANGED <<frameVars, chainStat, assetStat, op, chainTask, assetTask, adressTask>>

\* Lines 421-440: an error of GetChainStatistic is logged and the pass goes on
\* with the list as the failed query left it, empty.
computeChainStatisticAssets_422 ==
    /\ addrTask.pc = "422"
    /\ \E err \in ErrOutcomes :
         /\ faults' = Spend(err)
         /\ addrTask' = [addrTask EXCEPT
                           !.pc = "441",
                           !.rows = IF err THEN <<>>
                                    ELSE SetAddresses(chainStat, addrTask.counts)]
    /\ UNCHANGED <<frameVars, chainStat, assetStat, op, chainTask, assetTask, adressTask>>

\* Lines 441-447.
computeChainStatisticAssets_441 ==
    /\ addrTask.pc = "441"
    /\ \E err \in ErrOutcomes :
         /\ faults' = Spend(err)
         /\ chainStat' = IF err THEN chainStat ELSE SaveChainStatistics(addrTask.rows)
    /\ addrTask' = IdleAddrTask
    /\ UNCHANGED <<frameVars, assetStat, op, chainTask, assetTask, adressTask>>

(* ------------------------------------------------------------------ *)
(* Environment of the chain pass: the ledgers grow, the catalog changes *)
(* ------------------------------------------------------------------ *)

ChainRecords == Len(dstTxn) + Len(srcTxn) + polyTxn

AppendDstTxn ==
    /\ category = "chain"
    /\ ChainRecords < MaxRecords
    /\ \E c \in chains \ {POLY_CROSSCHAIN_ID} : dstTxn' = Append(dstTxn, c)
    /\ op' = EnvOp
    /\ UNCHANGED <<runVars, passVars, funVars, chains, srcTxn, polyTxn, chainStat, assetVars, tokenVars, category, faults>>

AppendSrcTxn ==
    /\ category = "chain"
    /\ ChainRecords < MaxRecords
    /\ \E c \in chains \ {POLY_CROSSCHAIN_ID} : srcTxn' = Append(srcTxn, c)
    /\ op' = EnvOp
    /\ UNCHANGED <<runVars, passVars, funVars, chains, dstTxn, polyTxn, chainStat, assetVars, tokenVars, category, faults>>

AppendPolyTxn ==
    /\ category = "chain"
    /\ ChainRecords < MaxRecords
    /\ polyTxn' = polyTxn + 1
    /\ op' = EnvOp
    /\ UNCHANGED <<runVars, passVars, funVars, chains, dstTxn, srcTxn, chainStat, assetVars, tokenVars, category, faults>>

\* The chain ids the catalog, the ledgers or the table hold.
KnownChains ==
    chains \cup DOMAIN chainStat \cup {dstTxn[i] : i \in DOMAIN dstTxn}
           \cup {srcTxn[i] : i \in DOMAIN srcTxn}

AddChain ==
    /\ category = "chain"
    /\ \E c \in ChainIds \ chains :
         /\ Cardinality(KnownChains \cup {c}) <= MaxKeys
         /\ chains' = chains \cup {c}
    /\ op' = EnvOp
    /\ UNCHANGED <<runVars, passVars, funVars, dstTxn, srcTxn, polyTxn, chainStat, assetVars, tokenVars, category, faults>>

RemoveChain ==
    /\ category = "chain"
    /\ \E c \in chains : chains' = chains \ {c}
    /\ op' = EnvOp
    /\ UNCHANGED <<runVars, passVars, funVars, dstTxn, srcTxn, polyTxn, chainStat, assetVars, tokenVars, category, faults>>

(* ------------------------------------------------------------------ *)
(* bridgedao queries used by the asset and token-basic passes         *)
(* ------------------------------------------------------------------ *)

\* GetNewSrcTransfer().Id
HighestSrcTransferId == Len(srcTransfer)

\* CalculateAssets(name, lastId, nowId): the transfers of the basic's tokens
\* with Id in (lastId, nowId], aggregated; no entry when there is none.
CalculateAssets(n, lastId, nowId) ==
    LET cnt == CountName(srcTransfer, n, lastId, nowId)
    IN  IF cnt = 0 THEN <<>>
        ELSE <<[Amount |-> SumAmount(srcTransfer, n, lastId, nowId),
                Txnum |-> cnt, Precision |-> PrecisionOf(n)]>>

\* GetLastSrcTransferForToken(assets): the Id of the newest transfer of the
\* basic's tokens, 0 when there is none (a nil result).
GetLastSrcTransferForToken(n) ==
    LET ids == {i \in 1..Len(srcTransfer) : srcTransfer[i].name = n}
    IN  IF ids = {} THEN 0 ELSE CHOOSE i \in ids : \A j \in ids : j <= i

\* AggregateTokenBasicSrcTransfers(assets, checkPoint, lastId)
AggregateTokenBasicSrcTransfers(n, checkPoint, lastId) ==
    [amount |-> SumAmount(srcTransfer, n, checkPoint, lastId),
     count |-> CountName(srcTransfer, n, checkPoint, lastId)]

(* ------------------------------------------------------------------ *)
(* computeAssetStatistics: each call of the store is one step          *)
(* ------------------------------------------------------------------ *)

\* Lines 476-483: the row appended for a catalog name that has none.
NewAssetStatistic ==
    [Addressnum |-> 0, Txnum |-> 0, Amount |-> 0, LastCheckId |-> 0]

\* Lines 462-466: the catalog names a row is wanted for.
AssetNames == {n \in basics : StandardOf(n) = 0}

\* Lines 471-486: the rows GetAssetStatistic returned, then a new row per
\* wanted name without one.
AssetStatisticsList(rows, names) ==
    [n \in DOMAIN rows \cup names |->
        IF n \in DOMAIN rows THEN rows[n] ELSE NewAssetStatistic]

\* Lines 497-510: one aggregate folded into the row (amount in 1/100 units).
FoldAssetInfo(row, info) ==
    [row EXCEPT !.Amount = (info.Amount * 100 + row.Amount * Pow10(info.Precision))
                              \div Pow10(info.Precision),
                !.Txnum = row.Txnum + info.Txnum]

\* Lines 493-511: one row of the loop. qErr: CalculateAssets returned an error.
FoldAssetRow(n, row, qErr, nowId) ==
    LET infos == IF qErr THEN <<>> ELSE CalculateAssets(n, row.LastCheckId, nowId)
        folded == IF infos = <<>> THEN row ELSE FoldAssetInfo(row, infos[1])
    IN  [folded EXCEPT !.LastCheckId = nowId]

\* SaveAssetStatistic(row): the row replaces the stored row of its name, all
\* columns.
SaveAssetStatistic(n, row) ==
    [m \in DOMAIN assetStat \cup {n} |-> IF m = n THEN row ELSE assetStat[m]]

\* The locals of computeAssetStatistics between two calls of the store: the
\* mark; the wanted names; list, assetStatistics as read and completed; stored,
\* the names GetAssetStatistic returned a row for; todo, the rows the loop of
\* line 492 has not reached; cur and row, the row of the iteration under way,
\* folded; the names whose query failed; the names SaveAssetStatistic was
\* called for.
IdleAssetTask ==
    [pc |-> "idle", nowId |-> 0, names |-> {}, list |-> <<>>, stored |-> {},
     todo |-> {}, cur |-> "", row |-> NewAssetStatistic, qfail |-> {}, attempted |-> {}]

\* The pass returns: its locals are gone, and the outcome of its calls is the
\* last operation.
AssetReturns(abort, qfail, sfail, attempted, listed) ==
    /\ assetTask' = IdleAssetTask
    /\ op' = EndOp("asset", abort, qfail, sfail, attempted, listed)

\* Lines 452-456.
computeAssetStatistics_452 ==
    /\ category = "asset"
    /\ assetTask.pc = "idle"
    /\ \E err \in ErrOutcomes :
         /\ faults' = Spend(err)
         /\ IF err THEN AssetReturns(TRUE, {}, {}, {}, {})
            ELSE /\ assetTask' = [IdleAssetTask EXCEPT !.pc = "458", !.nowId = Len(srcTransfer)]
                 /\ op' = BeginOp("asset")
    /\ UNCHANGED <<frameVars, chainStat, assetStat, chainTask, addrTask, adressTask>>

\* Lines 457-466.
computeAssetStatistics_458 ==
    /\ assetTask.pc = "458"
    /\ \E err \in ErrOutcomes :
         /\ faults' = Spend(err)
         /\ IF err THEN AssetReturns(TRUE, {}, {}, {}, {})
            ELSE /\ assetTask' = [assetTask EXCEPT !.pc = "467", !.names = AssetNames]
                 /\ op' = op
    /\ UNCHANGED <<frameVars, chainStat, assetStat, chainTask, addrTask, adressTask>>

\* Lines 467-486.
computeAssetStatistics_467 ==
    /\ assetTask.pc = "467"
    /\ \E err \in ErrOutcomes :
         /\ faults' = Spend(err)
         /\ IF err THEN AssetReturns(TRUE, {}, {}, {}, {})
            ELSE /\ assetTask' =
                      [assetTask EXCEPT
                         !.pc = "487",
                         !.list = AssetStatisticsList(assetStat, assetTask.names),
                         !.stored = DOMAIN assetStat,
                         !.todo = DOMAIN assetStat \cup assetTask.names]
                 /\ op' = op
    /\ UNCHANGED <<frameVars, chainStat, assetStat, chainTask, addrTask, adressTask>>

\* Lines 487-492, and 519 when the list is empty.
computeAssetStatistics_487 ==
    /\ assetTask.pc = "487"
    /\ \E err \in ErrOutcomes :
         /\ faults' = Spend(err)
         /\ IF err THEN AssetReturns(TRUE, {}, {}, {}, {})
            ELSE IF assetTask.todo = {} THEN AssetReturns(FALSE, {}, {}, {}, {})
            ELSE /\ assetTask' = [assetTask EXCEPT !.pc = "493"]
                 /\ op' = op
    /\ UNCHANGED <<frameVars, chainStat, assetStat, chainTask, addrTask, adressTask>>

\* The rows the loop of line 492 may reach next: the rows as the query returned
\* them, then the new rows as the map iteration of line 474 gave them.
AssetNextRows(t) ==
    IF t.todo \cap t.stored # {} THEN t.todo \cap t.stored ELSE t.todo

\* Lines 492-511: the next row of the list; an error of CalculateAssets is
\* logged and nothing is folded; the checkpoint is set.
computeAssetStatistics_493 ==
    /\ assetTask.pc = "493"
    /\ \E old \in AssetNextRows(assetTask), err \in ErrOutcomes :
         /\ faults' = Spend(err)
         /\ assetTask' =
              [assetTask EXCEPT
                 !.pc = "512",
                 !.cur = old,
                 !.row = FoldAssetRow(old, assetTask.list[old], err, assetTask.nowId),
                 !.qfail = IF err THEN @ \cup {old} ELSE @]
    /\ UNCHANGED <<frameVars, chainStat, assetStat, op, chainTask, addrTask, adressTask>>

\* Lines 512-519: the row is saved; an error returns from the pass.
computeAssetStatistics_512 ==
    /\ assetTask.pc = "512"
    /\ \E err \in ErrOutcomes :
         /\ faults' = Spend(err)
         /\ LET t == assetTask
                attempted == t.attempted \cup {t.cur}
                rest == t.todo \ {t.cur}
            IN  /\ assetStat' = IF err THEN assetStat ELSE SaveAssetStatistic(t.cur, t.row)
                /\ IF err THEN AssetReturns(FALSE, t.qfail, {t.cur}, attempted, DOMAIN t.list)
                   ELSE IF rest = {}
                   THEN AssetReturns(FALSE, t.qfail, {}, attempted, DOMAIN t.list)
                   ELSE /\ assetTask' = [t EXCEPT !.pc = "493", !.todo = rest,
                                                  !.attempted = attempted,
                                                  !.cur = "", !.row = NewAssetStatistic]
                        /\ op' = op
    /\ UNCHANGED <<frameVars, chainStat, chainTask, addrTask, adressTask>>

(* ------------------------------------------------------------------ *)
(* computeAssetStatisticAdress: each call of the store is one step     *)
(* ------------------------------------------------------------------ *)

\* CalculateAssetAdress: per token basic, the number of distinct addresses of
\* its transfers (here every transfer has an address of its own); one entry
\* per basic that has a transfer.
CalculateAssetAdress ==
    LET count(n) == CountName(srcTransfer, n, 0, Len(srcTransfer))
    IN  [n \in {b \in BasicNames : count(b) > 0} |-> count(n)]

\* UpdateAssetStatisticAdress(entry): the column Addressnum of the stored row
\* of the entry's name is set; no row is made.
UpdateAssetStatisticAdress(n, addressnum) ==
    IF n \in DOMAIN assetStat
    THEN [assetStat EXCEPT ![n].Addressnum = addressnum]
    ELSE assetStat

\* The locals of computeAssetStatisticAdress: the entries of newAssetAdresses
\* the loop of line 528 has not reached.
IdleAdressTask == [pc |-> "idle", todo |-> <<>>]

\* Lines 524-528.
computeAssetStatisticAdress_524 ==
    /\ category = "asset"
    /\ adressTask.pc = "idle"
    /\ \E err \in ErrOutcomes :
         /\ faults' = Spend(err)
         /\ LET newAssetAdresses == CalculateAssetAdress
            IN  adressTask' = IF err \/ DOMAIN newAssetAdresses = {} THEN IdleAdressTask
                              ELSE [pc |-> "529", todo |-> newAssetAdresses]
    /\ UNCHANGED <<frameVars, chainStat, assetStat, op, chainTask, addrTask, assetTask>>

\* Lines 528-534: the next entry is written; an error returns from the pass.
computeAssetStatisticAdress_529 ==
    /\ adressTask.pc = "529"
    /\ \E n \in DOMAIN adressTask.todo, err \in ErrOutcomes :
         /\ faults' = Spend(err)
         /\ LET rest == [m \in DOMAIN adressTask.todo \ {n} |-> adressTask.todo[m]]
            IN  /\ assetStat' = IF err THEN assetStat
                                ELSE UpdateAssetStatisticAdress(n, adressTask.todo[n])
                /\ adressTask' = IF err \/ DOMAIN rest = {} THEN IdleAdressTask
                                 ELSE [pc |-> "529", todo |-> rest]
    /\ UNCHANGED <<frameVars, chainStat, op, chainTask, addrTask, assetTask>>

(* ------------------------------------------------------------------ *)
(* computeStats / computeTokenBasicStats: each call of the store is    *)
(* one step                                                           *)
(* ------------------------------------------------------------------ *)

ZeroTokenBasic == [StatsUpdateTime |-> 0, TotalAmount |-> 0, TotalCount |-> 0]

\* Lines 115-116: the basics computeTokenBasicStats is called for.
BasicsWithTokens == {n \in basics : HasTokens(n)}

\* Lines 147-154: the row handed to UpdateTokenBasicStatsWithCheckPoint.
FoldTokenBasic(row, lastId, delta) ==
    IF row.StatsUpdateTime = 0
    THEN [StatsUpdateTime |-> lastId, TotalAmount |-> delta.amount,
          TotalCount |-> delta.count]
    ELSE [StatsUpdateTime |-> lastId,
          TotalAmount |-> delta.amount + row.TotalAmount,
          TotalCount |-> row.TotalCount + delta.count]

\* UpdateTokenBasicStatsWithCheckPoint(token, checkPoint): the statistic
\* columns of the stored row of the basic are written.
UpdateTokenBasicStatsWithCheckPoint(n, row) == [tokenBasic EXCEPT ![n] = row]

\* The locals of computeStats between two calls of the store: list, the basics
\* GetTokenBasics returned that have tokens, each with the columns as read at
\* line 111; todo, the basics the loop of line 115 has not reached; cur, last
\* and row, the basic computeTokenBasicStats is in, the Id of its last transfer
\* and the row folded; the basics a query failed for, those the update failed
\* for, those the update was called for.
IdleBasicTask ==
    [pc |-> "idle", list |-> <<>>, todo |-> {}, cur |-> "", last |-> 0,
     row |-> ZeroTokenBasic, qfail |-> {}, sfail |-> {}, called |-> {}]

\* What a step of the token-basic pass leaves alone.
basicFrame == <<chainVars, basics, srcTransfer, assetStat, tokenVars, category,
                runVars, funVars, chainTask, addrTask, assetTask, adressTask,
                tokenTask, alarmTask, funTask>>

\* The pass returns: its locals are gone, and the outcome of its calls is the
\* last operation.
BasicReturns(abort, t) ==
    /\ basicTask' = IdleBasicTask
    /\ op' = EndOp("basic", abort, t.qfail, t.sfail, t.called, t.called)

\* Lines 118-122: computeTokenBasicStats has returned, whatever it returned;
\* the loop goes on to the next basic, or computeStats returns.
BasicContinues(t) ==
    IF t.todo = {} THEN BasicReturns(FALSE, t)
    ELSE /\ basicTask' = [t EXCEPT !.pc = "136", !.cur = "", !.last = 0,
                                   !.row = ZeroTokenBasic]
         /\ op' = op

\* Lines 109-116: the catalog is read, each basic with its statistic columns.
\* With no basic that has tokens the pass returns without another call.
computeStats_111 ==
    /\ category = "basic"
    /\ basicTask.pc = "idle"
    /\ \E err \in ErrOutcomes :
         /\ faults' = Spend(err)
         /\ IF err THEN BasicReturns(TRUE, IdleBasicTask)
            ELSE IF BasicsWithTokens = {}
            THEN /\ basicTask' = IdleBasicTask
                 /\ op' = [EndOp("basic", FALSE, {}, {}, {}, {})
                             EXCEPT !.repeat = Repeats("basic"), !.quiet = TRUE]
            ELSE /\ basicTask' =
                      [IdleBasicTask EXCEPT
                         !.pc = "136",
                         !.list = [n \in BasicsWithTokens |-> tokenBasic[n]],
                         !.todo = BasicsWithTokens]
                 /\ op' = BeginOp("basic")
    /\ UNCHANGED <<basicFrame, tokenBasic>>

\* Lines 126-142 for the next basic of the list: the checkpoint is the one
\* read at line 111; the function returns on an error, with no transfer, or
\* when the checkpoint equals the Time of the last transfer.
computeTokenBasicStats_136 ==
    /\ basicTask.pc = "136"
    /\ \E n \in basicTask.todo, err \in ErrOutcomes :
         /\ faults' = Spend(err)
         /\ LET t == [basicTask EXCEPT !.todo = @ \ {n}]
                checkPoint == basicTask.list[n].StatsUpdateTime
                last == GetLastSrcTransferForToken(n)
            IN  IF err THEN BasicContinues([t EXCEPT !.qfail = @ \cup {n}])
                ELSE IF last = 0 \/ checkPoint = srcTransfer[last].time
                THEN BasicContinues(t)
                ELSE /\ basicTask' = [t EXCEPT !.pc = "143", !.cur = n, !.last = last]
                     /\ op' = op
    /\ UNCHANGED <<basicFrame, tokenBasic>>

\* Lines 143-154: the transfers between the checkpoint and the last transfer
\* are aggregated and folded into the row as read.
computeTokenBasicStats_143 ==
    /\ basicTask.pc = "143"
    /\ \E err \in ErrOutcomes :
         /\ faults' = Spend(err)
         /\ LET t == basicTask
                token == t.list[t.cur]
                checkPoint == token.StatsUpdateTime
            IN  IF err THEN BasicContinues([t EXCEPT !.qfail = @ \cup {t.cur}])
                ELSE /\ basicTask' =
                          [t EXCEPT
                             !.pc = "159",
                             !.row = FoldTokenBasic(token, t.last,
                                        AggregateTokenBasicSrcTransfers(t.cur, checkPoint,
                                                                        t.last))]
                     /\ op' = op
    /\ UNCHANGED <<basicFrame, tokenBasic>>

\* Lines 155-160: the row is written; an error is logged by computeStats.
computeTokenBasicStats_159 ==
    /\ basicTask.pc = "159"
    /\ \E err \in ErrOutcomes :
         /\ faults' = Spend(err)
         /\ LET t == [basicTask EXCEPT !.called = @ \cup {basicTask.cur},
                                       !.sfail = IF err THEN @ \cup {basicTask.cur} ELSE @]
            IN  /\ tokenBasic' = IF err THEN tokenBasic
                                 ELSE UpdateTokenBasicStatsWithCheckPoint(t.cur, t.row)
                /\ BasicContinues(t)
    /\ UNCHANGED basicFrame

(* ------------------------------------------------------------------ *)
(* Environment of the asset, token-basic and token passes              *)
(* ------------------------------------------------------------------ *)

\* Token.TokenBasicName
TokenBasicName(t) == IF t.hash = "pnft" THEN "PNFT" ELSE "USDT"

\* Who may send a source transfer: a token of a basic of the catalog, named by
\* the basic and the chain the transfer leaves. Only the token pass reads the
\* chain: elsewhere one value stands for all.
SrcSenders ==
    IF category = "token"
    THEN {[name |-> TokenBasicName(t), chainId |-> t.chainId] : t \in tokens}
    ELSE {[name |-> n, chainId |-> ETHEREUM_CROSSCHAIN_ID] :
            n \in {b \in basics : HasTokens(b)}}

\* Only the token-basic pass reads a transfer's timestamp: elsewhere one value
\* stands for all.
AppendSrcTransfer ==
    /\ category \in {"asset", "basic", "token"}
    /\ Len(srcTransfer) + Len(dstTransfer) < MaxRecords
    /\ \E s \in SrcSenders, a \in Amounts,
          t \in (IF category = "basic" THEN Times ELSE {HighTime}) :
          srcTransfer' = Append(srcTransfer, [name |-> s.name, chainId |-> s.chainId,
                                              amount |-> a, time |-> t])
    /\ op' = EnvOp
    /\ UNCHANGED <<runVars, passVars, funVars, chainVars, tokenVars, category, faults, basics, assetStat, tokenBasic>>

\* The token basic names the catalog, the ledger or the table hold.
KnownBasics ==
    basics \cup DOMAIN assetStat \cup {srcTransfer[i].name : i \in DOMAIN srcTransfer}

AddBasic ==
    /\ category \in {"asset", "basic"}
    /\ \E n \in BasicNames \ basics :
         /\ Cardinality(KnownBasics \cup {n}) <= MaxKeys
         /\ basics' = basics \cup {n}
    /\ op' = EnvOp
    /\ UNCHANGED <<runVars, passVars, funVars, chainVars, tokenVars, category, faults, srcTransfer, assetStat, tokenBasic>>

RemoveBasic ==
    /\ category = "asset"
    /\ \E n \in basics : basics' = basics \ {n}
    /\ op' = EnvOp
    /\ UNCHANGED <<runVars, passVars, funVars, chainVars, tokenVars, category, faults, srcTransfer, assetStat, tokenBasic>>

(* ------------------------------------------------------------------ *)
(* computeTokenStatistics: each call of the store is one step          *)
(* ------------------------------------------------------------------ *)

\* GetNewDstTransfer().Id
HighestDstTransferId == Len(dstTransfer)

\* Lines 227-239: the row appended for a catalog token that has none. The
\* dollar and BTC columns follow the amounts at the prices of the pass; they
\* are followed in the steps TokenRow_250 to TokenRow_302.
NewTokenStatistic ==
    [InAmount |-> 0, OutAmount |-> 0, InCounter |-> 0, OutCounter |-> 0,
     LastInCheckId |-> 0, LastOutCheckId |-> 0]

\* Lines 210-218: the catalog tokens a row is wanted for.
StatisticTokens == {t \in tokens : TokenStandard(t) = 0}

\* Lines 219-242: the rows GetTokenStatistics returned, then a new row per
\* wanted token without one.
TokenStatisticsList(rows, wanted) ==
    [t \in DOMAIN rows \cup wanted |->
        IF t \in DOMAIN rows THEN rows[t] ELSE NewTokenStatistic]

\* Token.TokenBasic.ChainId of the token GetTokenBasicByHash returns: the home
\* chain of its basic.
TokenBasicChainId(t) == ETHEREUM_CROSSCHAIN_ID

\* CalculateInTokenStatistics(chain, hash, lastId, nowId): the destination
\* transfers of the token with Id in (lastId, nowId], aggregated; no entry when
\* there is none.
CalculateInTokenStatistics(t, lastId, nowId) ==
    LET ids == {i \in DOMAIN dstTransfer :
                  dstTransfer[i].token = t /\ lastId < i /\ i <= nowId}
    IN  IF ids = {} THEN <<>>
        ELSE <<[Amount |-> SumOver([i \in ids |-> dstTransfer[i].amount], ids),
                Counter |-> Cardinality(ids)]>>

\* CalculateOutTokenStatistics(chain, hash, lastId, nowId): likewise over the
\* source transfers.
CalculateOutTokenStatistics(t, lastId, nowId) ==
    LET ids == {i \in DOMAIN srcTransfer :
                  /\ srcTransfer[i].name = TokenBasicName(t)
                  /\ srcTransfer[i].chainId = t.chainId
                  /\ lastId < i /\ i <= nowId}
    IN  IF ids = {} THEN <<>>
        ELSE <<[Amount |-> SumOver([i \in ids |-> srcTransfer[i].amount], ids),
                Counter |-> Cardinality(ids)]>>

\* Lines 264, 273, 291: amount / 10^precision * 100 with the fraction cut off.
ScaledUnits(amount, t) ==
    (amount * 100) \div Pow10(PrecisionOf(TokenBasicName(t)))

\* SaveTokenStatistic(row): the row replaces the stored row of its token.
SaveTokenStatistic(t, row) ==
    [u \in DOMAIN tokenStat \cup {t} |-> IF u = t THEN row ELSE tokenStat[u]]

(* ------------------------------------------------------------------ *)
(* getAndRetryBalance / getAndRetryTotalSupply                        *)
(* ------------------------------------------------------------------ *)

\* Lines 775, 789: the retries after the first attempt.
BalanceRetries == 4

SupplyRetries == 2

\* An answer of the chain node to one call: an error, or a value.
FetchError == [ok |-> FALSE, value |-> 0]

Answers == {FetchError} \cup {[ok |-> TRUE, value |-> v] : v \in Amounts}

\* What a call of one of the two functions returns: the calls it made, and
\* the value and the error of the last one.
NoFetch == [calls |-> 0, value |-> 0, err |-> FALSE]

\* The locals of a call of one of the two functions before its first call of
\* the node. pc: "call", the next step is a call of the node (773, 777 / 787,
\* 791); "sleep", the next step is the time.Sleep of line 776 / 790; "done",
\* the function returns.
NewFetch == [pc |-> "call", calls |-> 0, value |-> 0, err |-> FALSE]

\* The loop without the break of lines 779-781 / 793-795: once the first call
\* has failed every retry is made.
getAndRetry_NoBreak(fetch, answer, retries) ==
    LET calls == fetch.calls + 1
    IN  [pc |-> IF (IF calls = 1 THEN ~answer.ok ELSE calls <= retries)
                THEN "sleep" ELSE "done",
         calls |-> calls, value |-> answer.value, err |-> ~answer.ok]

\* Lines 772-784 and 786-798, one call of the node: balance and err are
\* assigned its answer (773, 777 / 787, 791); after a failed call the loop
\* sleeps and calls again while it has made fewer than `retries` further calls
\* (774-776 / 788-790); a call that succeeds ends the loop (778-780 / 792-794).
getAndRetry(fetch, answer, retries) ==
    LET calls == fetch.calls + 1
    IN  [pc |-> IF ~answer.ok /\ calls <= retries THEN "sleep" ELSE "done",
         calls |-> calls, value |-> answer.value, err |-> ~answer.ok]

\* Line 776 / 790: the sleep is over, the next call follows.
getAndRetry_Slept(fetch) == [fetch EXCEPT !.pc = "call"]

\* No token: the iteration of the loop has not begun.
NoToken == [chainId |-> 0, hash |-> ""]

\* The locals of computeTokenStatistics between two calls of a collaborator:
\* the two marks; rows, what GetTokenStatistics returned; list, tokenStatistics
\* as read and completed; todo, the rows the loop of line 249 has not reached;
\* cur and row, the row of the iteration under way; the rows a call failed for;
\* the rows SaveTokenStatistic was called for; fetch, the locals of
\* getAndRetryBalance while the pass is in it.
IdleTokenTask ==
    [pc |-> "idle", nowInId |-> 0, nowOutId |-> 0, rows |-> <<>>, list |-> <<>>,
     todo |-> {}, cur |-> NoToken, row |-> NewTokenStatistic, qfail |-> {},
     attempted |-> {}, fetch |-> NewFetch]

\* What a step of the token pass leaves alone.
tokenFrame == <<chainVars, assetVars, tokens, dstTransfer, category, runVars,
                funVars, chainTask, addrTask, assetTask, adressTask, basicTask,
                alarmTask, funTask>>

\* The pass returns: its locals are gone, and the outcome of its calls is the
\* last operation.
TokenReturns(abort, t, sfail) ==
    /\ tokenTask' = IdleTokenTask
    /\ op' = EndOp("token", abort, t.qfail, sfail, t.attempted, DOMAIN t.list)

\* Lines 249 and 307: the loop goes on to the next row, or the pass returns.
TokenContinues(t) ==
    IF t.todo = {} THEN TokenReturns(FALSE, t, {})
    ELSE /\ tokenTask' = [t EXCEPT !.pc = "250", !.cur = NoToken,
                                   !.row = NewTokenStatistic]
         /\ op' = op

\* Lines 186-192.
computeTokenStatistics_188 ==
    /\ category = "token"
    /\ tokenTask.pc = "idle"
    /\ ~crashed
    /\ \E err \in ErrOutcomes :
         /\ faults' = Spend(err)
         /\ IF err THEN TokenReturns(TRUE, IdleTokenTask, {})
            ELSE /\ tokenTask' = [IdleTokenTask EXCEPT !.pc = "193",
                                                       !.nowInId = HighestDstTransferId]
                 /\ op' = BeginOp("token")
    /\ UNCHANGED <<tokenFrame, tokenStat, crashed>>

\* Lines 193-197.
computeTokenStatistics_193 ==
    /\ tokenTask.pc = "193"
    /\ \E err \in ErrOutcomes :
         /\ faults' = Spend(err)
         /\ IF err THEN TokenReturns(TRUE, IdleTokenTask, {})
            ELSE /\ tokenTask' = [tokenTask EXCEPT !.pc = "198",
                                                   !.nowOutId = HighestSrcTransferId]
                 /\ op' = op
    /\ UNCHANGED <<tokenFrame, tokenStat, crashed>>

\* Lines 198-201.
computeTokenStatistics_198 ==
    /\ tokenTask.pc = "198"
    /\ \E err \in ErrOutcomes :
         /\ faults' = Spend(err)
         /\ IF err THEN TokenReturns(TRUE, IdleTokenTask, {})
            ELSE /\ tokenTask' = [tokenTask EXCEPT !.pc = "202", !.rows = tokenStat]
                 /\ op' = op
    /\ UNCHANGED <<tokenFrame, tokenStat, crashed>>

\* Lines 202-242.
computeTokenStatistics_202 ==
    /\ tokenTask.pc = "202"
    /\ \E err \in ErrOutcomes :
         /\ faults' = Spend(err)
         /\ IF err THEN TokenReturns(TRUE, IdleTokenTask, {})
            ELSE /\ tokenTask' =
                      [tokenTask EXCEPT
                         !.pc = "243",
                         !.list = TokenStatisticsList(tokenTask.rows, StatisticTokens),
                         !.todo = DOMAIN tokenTask.rows \cup StatisticTokens]
                 /\ op' = op
    /\ UNCHANGED <<tokenFrame, tokenStat, crashed>>

\* Lines 243-249, and 307 when the list is empty.
computeTokenStatistics_243 ==
    /\ tokenTask.pc = "243"
    /\ \E err \in ErrOutcomes :
         /\ faults' = Spend(err)
         /\ IF err THEN TokenReturns(TRUE, IdleTokenTask, {})
            ELSE TokenContinues(tokenTask)
    /\ UNCHANGED <<tokenFrame, tokenStat, crashed>>

\* The rows the loop of line 249 may reach next: the rows as the query returned
\* them, then the new rows as the map iteration of line 225 gave them.
TokenNextRows(t) ==
    IF t.todo \cap DOMAIN t.rows # {} THEN t.todo \cap DOMAIN t.rows ELSE t.todo

\* What GetTokenBasicByHash may answer: "found" (the token, no error),
\* "missing" (no token, an error), "partial" (a token and an error).
LookupAnswers == IF faults > 0 THEN {"found", "missing", "partial"} ELSE {"found"}

\* Lines 249-258 for the next row of the list. The test of line 251 is
\* err == nil: a row whose lookup succeeds is logged and passed over. With an
\* error and no token line 255 reads a nil pointer and the process dies; with
\* an error and a token the row is folded.
computeTokenStatistics_250 ==
    /\ tokenTask.pc = "250"
    /\ ~crashed
    /\ \E s \in TokenNextRows(tokenTask), answer \in LookupAnswers :
         LET t == [tokenTask EXCEPT !.todo = @ \ {s}]
             failed == [t EXCEPT !.qfail = @ \cup {s}]
         IN  /\ faults' = Spend(answer # "found")
             /\ crashed' = (answer = "missing")
             /\ IF answer = "found" THEN TokenContinues(t)
                ELSE IF answer = "missing" THEN TokenReturns(FALSE, failed, {})
                ELSE /\ tokenTask' =
                          [failed EXCEPT
                             !.pc = IF TokenBasicChainId(s) = s.chainId THEN "259"
                                    ELSE "267",
                             !.cur = s, !.row = tokenTask.list[s]]
                     /\ op' = op
    /\ UNCHANGED <<tokenFrame, tokenStat>>

\* Lines 258-265, the row of the home chain, one call of the node by
\* getAndRetryBalance (773, 777): after a failed call the function sleeps and
\* calls again, up to four times; the inbound amount is the balance it returns;
\* its error is logged and the amount is kept. A node that has failed the
\* first call may fail every retry: the failing fetch is one fault.
computeTokenStatistics_259 ==
    /\ tokenTask.pc = "259"
    /\ \E err \in (IF tokenTask.fetch.calls = 0 THEN ErrOutcomes ELSE BOOLEAN),
          balance \in Amounts :
         LET answer == IF err THEN FetchError ELSE [ok |-> TRUE, value |-> balance]
             next == getAndRetry(tokenTask.fetch, answer, BalanceRetries)
         IN  /\ faults' = IF tokenTask.fetch.calls = 0 THEN Spend(err) ELSE faults
             /\ tokenTask' =
                  IF next.pc = "sleep"
                  THEN [tokenTask EXCEPT !.pc = "776", !.fetch = next]
                  ELSE [tokenTask EXCEPT
                          !.pc = "282",
                          !.fetch = NewFetch,
                          !.row.InAmount = IF next.err THEN @
                                           ELSE ScaledUnits(next.value, tokenTask.cur)]
    /\ UNCHANGED <<tokenFrame, tokenStat, crashed, op>>

\* Line 776: the second of sleep before a retry of the balance read.
computeTokenStatistics_776 ==
    /\ tokenTask.pc = "776"
    /\ tokenTask' = [tokenTask EXCEPT !.pc = "259",
                                      !.fetch = getAndRetry_Slept(tokenTask.fetch)]
    /\ UNCHANGED <<tokenFrame, tokenStat, crashed, op, faults>>

\* Lines 266-276, the row of another chain: the destination transfers between
\* the inbound cursor and mark are folded; an error is logged.
computeTokenStatistics_267 ==
    /\ tokenTask.pc = "267"
    /\ \E err \in ErrOutcomes :
         /\ faults' = Spend(err)
         /\ LET t == tokenTask
                in == IF err THEN <<>>
                      ELSE CalculateInTokenStatistics(t.cur, t.row.LastInCheckId, t.nowInId)
            IN  tokenTask' =
                  IF in = <<>> THEN [t EXCEPT !.pc = "282"]
                  ELSE [t EXCEPT
                          !.pc = "282",
                          !.row.InAmount = @ + ScaledUnits(in[1].Amount, t.cur),
                          !.row.InCounter = @ + in[1].Counter]
    /\ UNCHANGED <<tokenFrame, tokenStat, crashed, op>>

\* Lines 282-301: the source transfers between the inbound cursor and mark
\* (line 282 passes LastInCheckId and nowInId) are folded, the outbound amount
\* of a home row is set to zero, and the two checkpoints are set to the marks.
computeTokenStatistics_282 ==
    /\ tokenTask.pc = "282"
    /\ \E err \in ErrOutcomes :
         /\ faults' = Spend(err)
         /\ LET t == tokenTask
                home == TokenBasicChainId(t.cur) = t.cur.chainId
                out == IF err THEN <<>>
                       ELSE CalculateOutTokenStatistics(t.cur, t.row.LastInCheckId,
                                                        t.nowInId)
                folded == IF out = <<>> THEN t.row
                          ELSE [t.row EXCEPT
                                  !.OutAmount = IF home THEN 0
                                                ELSE @ + ScaledUnits(out[1].Amount, t.cur),
                                  !.OutCounter = @ + out[1].Counter]
            IN  tokenTask' =
                  [t EXCEPT !.pc = "302",
                            !.row = [folded EXCEPT !.LastInCheckId = t.nowInId,
                                                   !.LastOutCheckId = t.nowOutId]]
    /\ UNCHANGED <<tokenFrame, tokenStat, crashed, op>>

\* Lines 302-306: the row is saved; an error returns from the pass.
computeTokenStatistics_302 ==
    /\ tokenTask.pc = "302"
    /\ \E err \in ErrOutcomes :
         /\ faults' = Spend(err)
         /\ LET t == [tokenTask EXCEPT !.attempted = @ \cup {tokenTask.cur}]
            IN  /\ tokenStat' = IF err THEN tokenStat
                                ELSE SaveTokenStatistic(t.cur, t.row)
                /\ IF err THEN TokenReturns(FALSE, t, {t.cur})
                   ELSE TokenContinues(t)
    /\ UNCHANGED <<tokenFrame, crashed>>

(* ------------------------------------------------------------------ *)
(* Environment of the token pass                                      *)
(* ------------------------------------------------------------------ *)

AppendDstTransfer ==
    /\ category = "token"
    /\ Len(srcTransfer) + Len(dstTransfer) < MaxRecords
    /\ \E t \in tokens, a \in Amounts :
         dstTransfer' = Append(dstTransfer, [token |-> t, amount |-> a])
    /\ op' = EnvOp
    /\ UNCHANGED <<runVars, passVars, funVars, chainVars, assetVars, tokens, tokenStat, crashed, category, faults>>

AddToken ==
    /\ category = "token"
    /\ \E t \in TokenIds \ tokens : tokens' = tokens \cup {t}
    /\ op' = EnvOp
    /\ UNCHANGED <<runVars, passVars, funVars, chainVars, assetVars, dstTransfer, tokenStat, crashed, category, faults>>

(* ------------------------------------------------------------------ *)
(* math/big integers: sign and decimal digits, lowest digit first      *)
(* ------------------------------------------------------------------ *)

BigZero == [neg |-> FALSE, mag |-> <<>>]

RECURSIVE NatDigits(_)
NatDigits(n) == IF n = 0 THEN <<>> ELSE <<n % 10>> \o NatDigits(n \div 10)

\* big.NewInt(n), n >= 0
BigNat(n) == [neg |-> FALSE, mag |-> NatDigits(n)]

Reverse(s) == [i \in 1..Len(s) |-> s[Len(s) + 1 - i]]

\* SetString(digits, 10): the digits as written, highest first.
BigFromString(ds) == [neg |-> FALSE, mag |-> Reverse(ds)]

Zeros(p) == [i \in 1..p |-> 0]

\* x * 10^p
BigMulPow10(x, p) == IF x.mag = <<>> THEN x ELSE [x EXCEPT !.mag = Zeros(p) \o @]

RECURSIVE TrimMag(_)
TrimMag(m) ==
    IF m = <<>> \/ m[Len(m)] # 0 THEN m ELSE TrimMag(SubSeq(m, 1, Len(m) - 1))

\* -1, 0, 1 as the magnitude a is below, equal to, above b
CmpMag(a, b) ==
    IF Len(a) # Len(b) THEN (IF Len(a) < Len(b) THEN -1 ELSE 1)
    ELSE LET diff == {i \in 1..Len(a) : a[i] # b[i]}
         IN  IF diff = {} THEN 0
             ELSE LET top == CHOOSE i \in diff : \A j \in diff : j <= i
                  IN  IF a[top] < b[top] THEN -1 ELSE 1

Digit(m, i) == IF i <= Len(m) THEN m[i] ELSE 0

RECURSIVE AddMagFrom(_, _, _, _)
AddMagFrom(a, b, i, carry) ==
    IF i > Len(a) /\ i > Len(b)
    THEN (IF carry = 0 THEN <<>> ELSE <<carry>>)
    ELSE LET d == Digit(a, i) + Digit(b, i) + carry
         IN  <<d % 10>> \o AddMagFrom(a, b, i + 1, d \div 10)

AddMag(a, b) == AddMagFrom(a, b, 1, 0)

RECURSIVE SubMagFrom(_, _, _, _)
SubMagFrom(a, b, i, borrow) ==
    IF i > Len(a) THEN <<>>
    ELSE LET d == Digit(a, i) - Digit(b, i) - borrow
         IN  IF d < 0 THEN <<d + 10>> \o SubMagFrom(a, b, i + 1, 1)
             ELSE <<d>> \o SubMagFrom(a, b, i + 1, 0)

\* a - b for magnitudes with a >= b
SubMag(a, b) == TrimMag(SubMagFrom(a, b, 1, 0))

BigNeg(x) == IF x.mag = <<>> THEN x ELSE [x EXCEPT !.neg = ~@]

\* new(big.Int).Add(x, y)
BigAdd(x, y) ==
    IF x.neg = y.neg THEN [neg |-> x.neg, mag |-> AddMag(x.mag, y.mag)]
    ELSE LET c == CmpMag(x.mag, y.mag)
         IN  IF c = 0 THEN BigZero
             ELSE IF c > 0 THEN [neg |-> x.neg, mag |-> SubMag(x.mag, y.mag)]
             ELSE [neg |-> y.neg, mag |-> SubMag(y.mag, x.mag)]

\* new(big.Int).Sub(x, y)
BigSub(x, y) == BigAdd(x, BigNeg(y))

\* x.Cmp(big.NewInt(0))
BigSign(x) == IF x.mag = <<>> THEN 0 ELSE IF x.neg THEN -1 ELSE 1

\* x.Cmp(y)
BigCmp(x, y) == BigSign(BigSub(x, y))

RECURSIVE MulMagDigit(_, _, _, _)
MulMagDigit(a, d, i, carry) ==
    IF i > Len(a) THEN (IF carry = 0 THEN <<>> ELSE <<carry>>)
    ELSE LET v == a[i] * d + carry
         IN  <<v % 10>> \o MulMagDigit(a, d, i + 1, v \div 10)

RECURSIVE MulMagFrom(_, _, _)
MulMagFrom(a, b, j) ==
    IF j > Len(b) THEN <<>>
    ELSE AddMag(MulMagDigit(a, b[j], 1, 0), <<0>> \o MulMagFrom(a, b, j + 1))

\* The zero digits at the low end of a magnitude.
LowZeros(m) ==
    IF m = <<>> THEN 0
    ELSE (CHOOSE i \in 1..Len(m) : m[i] # 0 /\ \A j \in 1..(i - 1) : m[j] = 0) - 1

\* The product of the magnitudes: the low zeros are set aside, and the
\* partial products run over the digits of the shorter factor.
MulMag(a, b) ==
    IF a = <<>> \/ b = <<>> THEN <<>>
    ELSE LET sa == SubSeq(a, LowZeros(a) + 1, Len(a))
             sb == SubSeq(b, LowZeros(b) + 1, Len(b))
             prod == IF Len(sa) >= Len(sb) THEN MulMagFrom(sa, sb, 1)
                     ELSE MulMagFrom(sb, sa, 1)
         IN  Zeros(LowZeros(a) + LowZeros(b)) \o TrimMag(prod)

\* new(big.Int).Mul(x, y)
BigMul(x, y) ==
    LET m == MulMag(x.mag, y.mag)
    IN  IF m = <<>> THEN BigZero ELSE [neg |-> x.neg # y.neg, mag |-> m]

\* x / 10^p, the fraction cut off (decimal.BigInt, decimal.IntPart)
BigQuoPow10(x, p) ==
    LET m == IF Len(x.mag) <= p THEN <<>> ELSE SubSeq(x.mag, p + 1, Len(x.mag))
    IN  IF m = <<>> THEN BigZero ELSE [neg |-> x.neg, mag |-> m]

\* x / 10^p rounded to the nearest integer, a half away from zero
\* (decimal.DivRound, decimal.Round)
BigRoundPow10(x, p) ==
    LET kept == IF Len(x.mag) <= p THEN <<>> ELSE SubSeq(x.mag, p + 1, Len(x.mag))
        m == IF p > 0 /\ Digit(x.mag, p) >= 5 THEN AddMag(kept, <<1>>) ELSE kept
    IN  IF m = <<>> THEN BigZero ELSE [neg |-> x.neg, mag |-> m]

RECURSIVE DivMagFrom(_, _, _, _)
DivMagFrom(a, b, i, rem) ==
    IF i = 0 THEN [q |-> <<>>, r |-> rem]
    ELSE IF rem = <<>> /\ \A j \in 1..i : a[j] = 0 THEN [q |-> Zeros(i), r |-> <<>>]
    ELSE LET cur == TrimMag(<<a[i]>> \o rem)
             k == CHOOSE d \in 0..9 :
                    /\ CmpMag(TrimMag(MulMagDigit(b, d, 1, 0)), cur) <= 0
                    /\ CmpMag(TrimMag(MulMagDigit(b, d + 1, 1, 0)), cur) > 0
             rest == DivMagFrom(a, b, i - 1,
                                SubMag(cur, TrimMag(MulMagDigit(b, k, 1, 0))))
         IN  [q |-> rest.q \o <<k>>, r |-> rest.r]

\* Quotient and remainder of the magnitudes, b not zero (big.Int.QuoRem)
DivMag(a, b) ==
    LET d == DivMagFrom(a, b, Len(a), <<>>)
    IN  [q |-> TrimMag(d.q), r |-> d.r]

\* The low zero digits two magnitudes share: a factor of the quotient's both sides.
CommonZeros(a, b) ==
    IF LowZeros(a) <= LowZeros(b) THEN LowZeros(a) ELSE LowZeros(b)

\* x / y rounded to 16 decimal places, a half away from zero, as a whole
\* number of 10^-16 (decimal.Div, DivisionPrecision 16); y not zero
BigDiv16(x, y) ==
    LET z == CommonZeros(x.mag, y.mag)
        num == SubSeq(x.mag, z + 1, Len(x.mag))
        den == SubSeq(y.mag, z + 1, Len(y.mag))
        d == DivMag(Zeros(16) \o num, den)
        m == IF CmpMag(AddMag(d.r, d.r), den) >= 0 THEN AddMag(d.q, <<1>>) ELSE d.q
    IN  IF x.mag = <<>> \/ m = <<>> THEN BigZero ELSE [neg |-> x.neg # y.neg, mag |-> m]

\* x / 10^p as decimal.Div gives it: a whole number of 10^-16
BigDiv16Pow10(x, p) ==
    IF p <= 16 THEN BigMulPow10(x, 16 - p) ELSE BigRoundPow10(x, p - 16)

(* ------------------------------------------------------------------ *)
(* getAndRetryBalance / getAndRetryTotalSupply on their own           *)
(* ------------------------------------------------------------------ *)

\* The retries of the function named.
RetriesOf(kind) == IF kind = "balance" THEN BalanceRetries ELSE SupplyRetries

\* No function under check is between two of its calls.
IdleFunTask == [pc |-> "idle"]

funFrame == <<statsVars, runVars, chainTask, addrTask, assetTask, adressTask, basicTask,
              tokenTask, alarmTask, funIn>>

\* getAndRetryBalance / getAndRetryTotalSupply on the answers drawn: the next
\* call of the node, the first one included. answers[i] is the answer to the
\* i-th call. The function returns after a call that is not followed by a
\* sleep.
getAndRetry_773 ==
    /\ funIn.kind \in {"balance", "supply"}
    /\ funOut = NoFetch
    /\ funTask.pc \in {"idle", "call"}
    /\ LET fetch == IF funTask.pc = "idle" THEN NewFetch ELSE funTask
           next == getAndRetry(fetch, funIn.answers[fetch.calls + 1],
                               RetriesOf(funIn.kind))
       IN  IF next.pc = "done"
           THEN /\ funOut' = [calls |-> next.calls, value |-> next.value,
                              err |-> next.err]
                /\ funTask' = IdleFunTask
           ELSE /\ funTask' = next
                /\ funOut' = funOut
    /\ UNCHANGED funFrame

\* Line 776 / 790: the second of sleep before a retry.
getAndRetry_776 ==
    /\ funIn.kind \in {"balance", "supply"}
    /\ funTask.pc = "sleep"
    /\ funTask' = getAndRetry_Slept(funTask)
    /\ UNCHANGED <<funFrame, funOut>>

(* ------------------------------------------------------------------ *)
(* specialBasic / inExtraBasic / notToken                             *)
(* ------------------------------------------------------------------ *)

\* Lines 655-663
inExtraBasic(name) ==
    name \in {"BLES", "GOF", "LEV", "mBTM", "MOZ", "O3", "USDT", "STN", "XMPT"}

\* A test that passes over no token.
notToken_Never(token) == FALSE

\* Lines 722-727
notToken(token) == token.TokenBasicName = "USDT" /\ token.Precision # 6

\* A lookup that has no table: the fetched supply whatever the token.
specialBasic_NoTable(token, totalSupply) == totalSupply

\* Lines 664-721. presion is 10^token.Precision.
specialBasic(token, totalSupply) ==
    LET n == token.TokenBasicName
        c == token.ChainId
        Scaled(k) == BigMulPow10(k, token.Precision)
    IN  CASE n = "YNI" /\ c = ETHEREUM_CROSSCHAIN_ID -> BigZero
          [] n = "YNI" /\ c = HECO_CROSSCHAIN_ID -> Scaled(BigNat(1))
          [] n = "DAO" /\ c = ETHEREUM_CROSSCHAIN_ID -> Scaled(BigNat(1000))
          [] n = "DAO" /\ c = HECO_CROSSCHAIN_ID -> Scaled(BigNat(1000))
          [] n = "COPR" /\ c = BSC_CROSSCHAIN_ID -> Scaled(BigNat(274400000))
          [] n = "COPR" /\ c = HECO_CROSSCHAIN_ID -> BigZero
          [] n = "DigiCol ERC-721" /\ c = ETHEREUM_CROSSCHAIN_ID -> BigZero
          [] n = "DigiCol ERC-721" /\ c = HECO_CROSSCHAIN_ID -> BigZero
          [] n = "DMOD" /\ c = ETHEREUM_CROSSCHAIN_ID -> BigZero
          [] n = "DMOD" /\ c = BSC_CROSSCHAIN_ID -> Scaled(BigNat(15000000))
          [] n = "SIL" /\ c = ETHEREUM_CROSSCHAIN_ID ->
                BigFromString(<<1,4,8,7,5,2,0,6,7,5,2,6,5,3,3,0,3,9,1,6,3,1>>)
          [] n = "SIL" /\ c = BSC_CROSSCHAIN_ID -> Scaled(BigNat(5001))
          [] n = "DOGK" /\ c = BSC_CROSSCHAIN_ID -> BigZero
          [] n = "DOGK" /\ c = HECO_CROSSCHAIN_ID ->
                Scaled(BigFromString(<<2,8,5,0,0,0,0,0,0,0,0,0>>))
          [] n = "SXC" /\ c = OK_CROSSCHAIN_ID -> BigZero
          [] n = "SXC" /\ c = MATIC_CROSSCHAIN_ID -> BigZero
          [] n = "OOE" /\ c = MATIC_CROSSCHAIN_ID -> BigZero
          [] OTHER -> totalSupply

\* The arguments specialBasic is checked on.
SpecialNames ==
    {"YNI", "DAO", "COPR", "DigiCol ERC-721", "DMOD", "SIL", "DOGK", "SXC", "OOE", "WBTC"}

SpecialChains ==
    {ETHEREUM_CROSSCHAIN_ID, BSC_CROSSCHAIN_ID, HECO_CROSSCHAIN_ID, O3_CROSSCHAIN_ID,
     OK_CROSSCHAIN_ID, MATIC_CROSSCHAIN_ID}

Precisions == {0, 6, 18}

\* Supplies and balances a chain node reports: none, below and above one unit
\* of an 18-digit token.
ChainFigures ==
    {BigZero, BigNat(SmallAmount), BigMulPow10(BigNat(LargeAmount), 18)}

NoResult == [done |-> FALSE]

\* One call of specialBasic on the arguments drawn.
Special ==
    /\ funIn.kind = "special"
    /\ funOut = NoResult
    /\ funOut' = [done |-> TRUE,
                  supply |-> specialBasic(funIn.token, funIn.totalSupply)]
    /\ UNCHANGED <<statsVars, runVars, passVars, funIn>>

(* ------------------------------------------------------------------ *)
(* startCheckAssetAlarm / getO3Data                                   *)
(* ------------------------------------------------------------------ *)

\* The token basics GetPropertytokenBasic may return, with their tokens: an
\* asset with overrides (one on its home chain), an asset of the exclusion list
\* with a token notToken rejects, and an asset with a token whose Property is
\* not 1; the last two have an externally-sourced entry.
Token(name, chainId, hash, precision, property) ==
    [TokenBasicName |-> name, ChainId |-> chainId, Hash |-> hash,
     Precision |-> precision, Property |-> property]

\* A price in dollars as the catalog stores it, scaled by 10^8.
Dollars(n) == BigMulPow10(BigNat(n), 8)

\* The last three are the basics the alert is checked on: two outside the
\* exclusion list and the override table, priced so that the figures drawn for
\* them lie below, at and above the alert threshold, and one of the list.
PropertyBasics ==
    <<[Name |-> "DAO", ChainId |-> ETHEREUM_CROSSCHAIN_ID, Precision |-> 18,
       Price |-> Dollars(2),
       Tokens |-> <<Token("DAO", ETHEREUM_CROSSCHAIN_ID, "dao-eth", 18, 1),
                    Token("DAO", HECO_CROSSCHAIN_ID, "dao-heco", 18, 1)>>],
      [Name |-> "USDT", ChainId |-> ETHEREUM_CROSSCHAIN_ID, Precision |-> 6,
       Price |-> Dollars(1),
       Tokens |-> <<Token("USDT", BSC_CROSSCHAIN_ID, "usdt-bsc", 18, 1),
                    Token("USDT", ETHEREUM_CROSSCHAIN_ID, "usdt-eth", 6, 1)>>],
      [Name |-> "WBTC", ChainId |-> ETHEREUM_CROSSCHAIN_ID, Precision |-> 8,
       Price |-> Dollars(30000),
       Tokens |-> <<Token("WBTC", ETHEREUM_CROSSCHAIN_ID, "wbtc-eth", 8, 1),
                    Token("WBTC", HECO_CROSSCHAIN_ID, "wbtc-heco", 8, 0),
                    Token("WBTC", BSC_CROSSCHAIN_ID, "wbtc-bsc", 8, 1)>>],
      [Name |-> "ETH", ChainId |-> ETHEREUM_CROSSCHAIN_ID, Precision |-> 18,
       Price |-> Dollars(2000),
       Tokens |-> <<Token("ETH", ETHEREUM_CROSSCHAIN_ID, "eth-eth", 18, 1),
                    Token("ETH", BSC_CROSSCHAIN_ID, "eth-bsc", 18, 1)>>],
      [Name |-> "BNB", ChainId |-> BSC_CROSSCHAIN_ID, Precision |-> 8,
       Price |-> Dollars(400),
       Tokens |-> <<Token("BNB", ETHEREUM_CROSSCHAIN_ID, "bnb-eth", 8, 1)>>],
      [Name |-> "O3", ChainId |-> ETHEREUM_CROSSCHAIN_ID, Precision |-> 18,
       Price |-> Dollars(1),
       Tokens |-> <<Token("O3", BSC_CROSSCHAIN_ID, "o3-bsc", 18, 1)>>]>>

\* Lines 583-589: the tokens of a basic the loop does not pass over.
Checked(token) == ~notToken(token) /\ token.Property = 1

CheckedTokens(basic) == SelectSeq(basic.Tokens, Checked)

\* What the chain node answers to every call of a fetch for a token.
\* A failed call carries the text of its error.
FetchFailed == [ok |-> FALSE, value |-> BigZero, text |-> "timeout"]

AllNodesFailed == [ok |-> FALSE, value |-> BigZero, text |-> "all node is not working"]

Fetched(v) == [ok |-> TRUE, value |-> v, text |-> ""]

BalanceAnswers == {FetchFailed, Fetched(BigNat(LargeAmount))}

SupplyAnswers == {FetchFailed, Fetched(BigNat(SmallAmount))}

\* n / 10^4 whole tokens of precision 18
Milli(n) == BigMulPow10(BigNat(n), 14)

\* The answers drawn for the fetches of a token.
FetchAnswers(hash) ==
    CASE hash = "eth-eth" ->
           [balance : {AllNodesFailed, Fetched(BigZero), Fetched(Milli(10000))},
            supply : {Fetched(Milli(50000))}]
      [] hash = "eth-bsc" ->
           [balance : {AllNodesFailed, FetchFailed, Fetched(BigZero),
                       Fetched(Milli(50000))},
            supply : {FetchFailed, Fetched(Milli(50000)), Fetched(Milli(50002)),
                      Fetched(Milli(60000))}]
      [] hash = "bnb-eth" ->
           [balance : {AllNodesFailed, Fetched(BigZero)},
            supply : {Fetched(BigMulPow10(BigNat(25), 8)),
                      Fetched(BigMulPow10(BigNat(26), 8))}]
      [] hash = "o3-bsc" ->
           [balance : {Fetched(BigZero)},
            supply : {Fetched(BigZero), Fetched(BigMulPow10(BigNat(30000), 18))}]
      [] OTHER -> [balance : BalanceAnswers, supply : SupplyAnswers]

\* What the external lookup of getO3Data answers: no response, a response
\* with another status than 200, a balance.
O3Answers ==
    {[http |-> "err", Balance |-> BigZero], [http |-> "status", Balance |-> BigZero],
     [http |-> "ok", Balance |-> BigNat(SmallAmount)]}

NoReason == ""

\* ChainAsset with the override applied after the home-chain rule.
ChainAsset_OverrideLast(basic, token, balance, fetched) ==
    LET home == IF ~inExtraBasic(token.TokenBasicName) /\ basic.ChainId = token.ChainId
                THEN BigZero ELSE fetched
        totalSupply == specialBasic(token, home)
    IN  [ChainId |-> token.ChainId, Hash |-> token.Hash, TotalSupply |-> totalSupply,
         Balance |-> balance, Flow |-> BigSub(totalSupply, balance)]

\* Lines 590-592 and 607-614: the chain entry of one token. balance and fetched
\* are what the two fetches left: the figure of the node, 0 after an error.
ChainAsset(basic, token, balance, fetched) ==
    LET special == specialBasic(token, fetched)
        totalSupply == IF ~inExtraBasic(token.TokenBasicName)
                          /\ basic.ChainId = token.ChainId
                       THEN BigZero ELSE special
    IN  [ChainId |-> token.ChainId, Hash |-> token.Hash, TotalSupply |-> totalSupply,
         Balance |-> balance, Flow |-> BigSub(totalSupply, balance)]

RECURSIVE SumFlow(_, _)
SumFlow(entries, i) ==
    IF i > Len(entries) THEN BigZero
    ELSE BigAdd(entries[i].Flow, SumFlow(entries, i + 1))

\* Lines 728-770. Without a response, `defer response.Body.Close()` reads a nil
\* response: the goroutine panics.
getO3Data(assetDetail, o3) ==
    LET entry(bal, flow) == [ChainId |-> O3_CROSSCHAIN_ID, Hash |-> "",
                             TotalSupply |-> BigZero, Balance |-> bal, Flow |-> flow]
    IN  IF assetDetail.BasicName \notin {"WBTC", "USDT"}
        THEN [panic |-> FALSE, detail |-> assetDetail]
        ELSE IF o3.http = "err" THEN [panic |-> TRUE, detail |-> assetDetail]
        ELSE IF o3.http = "status" THEN [panic |-> FALSE, detail |-> assetDetail]
        ELSE IF assetDetail.BasicName = "WBTC"
        THEN [panic |-> FALSE,
              detail |-> [assetDetail EXCEPT
                            !.TokenAsset = Append(@, entry(BigZero, o3.Balance)),
                            !.Difference = BigAdd(@, o3.Balance)]]
        ELSE [panic |-> FALSE,
              detail |-> [assetDetail EXCEPT
                            !.TokenAsset = Append(@, entry(o3.Balance, BigZero))]]

\* decimal.StringFixed(0) of a whole number: its digits, highest first.
StringFixed0(x) == IF x.mag = <<>> THEN <<0>> ELSE Reverse(x.mag)

\* decimal.NewFromString of a string of digits; the empty string is an error
\* and leaves the zero value.
NewFromString(ds) == [neg |-> FALSE, mag |-> TrimMag(Reverse(ds))]

\* Line 630: Difference / 10^Precision (decimal.Div keeps 16 places, the last
\* one rounded) times Price * 10^-8, rounded to whole dollars and written out.
AmountUsd(difference, precision, price) ==
    StringFixed0(BigRoundPow10(BigMul(BigDiv16Pow10(difference, precision), price), 24))

\* Lines 629-631: the detail with its dollar amount when Difference > 0.
Valued(detail) ==
    IF BigSign(detail.Difference) = 1
    THEN [detail EXCEPT !.Amount_usd = AmountUsd(detail.Difference, detail.Precision,
                                                 detail.Price)]
    ELSE detail

\* Lines 625-633 with the home of every detail exchanged.
AppendDetail_Swapped(lists, detail) ==
    IF ~inExtraBasic(detail.BasicName)
    THEN [lists EXCEPT !.extraAssetDetails = Append(@, detail)]
    ELSE [lists EXCEPT !.resAssetDetails = Append(@, Valued(detail))]

\* Lines 625-633: the detail of a basic of the exclusion list goes to
\* extraAssetDetails as it is; every other detail gets its dollar amount and
\* goes to resAssetDetails.
AppendDetail(lists, detail) ==
    IF inExtraBasic(detail.BasicName)
    THEN [lists EXCEPT !.extraAssetDetails = Append(@, detail)]
    ELSE [lists EXCEPT !.resAssetDetails = Append(@, Valued(detail))]

\* The alert threshold in dollars (line 809).
AlertThreshold == 10000

\* Lines 803-822: the detail is written into the message.
Alerted(detail) ==
    /\ detail.Reason # "all node is not working"
    /\ BigSign(detail.Difference) = 1
    /\ BigCmp(NewFromString(detail.Amount_usd), BigNat(AlertThreshold)) = 1

\* Lines 800-828: the message of the pass, as the names of the assets written
\* into it in their order, handed to PostDingtext when there is one.
sendDing(assetDetails) ==
    LET picked == SelectSeq(assetDetails, Alerted)
    IN  [sent |-> picked # <<>>,
         assets |-> [i \in 1..Len(picked) |-> picked[i].BasicName]]

NoAlert == [sent |-> FALSE, assets |-> <<>>]

\* Lines 567-654, call by call. alarmTask is the storage of the locals of the
\* call: pc, the line of the call, sleep or loop head the goroutine is at;
\* tokenBasics, what GetPropertytokenBasic returned (with the answers the
\* fetches and the lookup get for each basic); next, the basic the outer loop
\* is at; the two lists of details; and the locals of the body of the outer
\* loop: Reason of assetDetail, dstChainAssets, totalFlow, tok, the token the
\* inner loop is at, balance, and fetch, the locals of the getAndRetry function
\* the call is in. A call that has returned leaves the storage as it was; what
\* the next call works on is what it declares itself (572-573, 575, 580-582).
IdleAlarmTask ==
    [pc |-> "idle", tokenBasics |-> <<>>, next |-> 1,
     resAssetDetails |-> <<>>, extraAssetDetails |-> <<>>,
     Reason |-> NoReason, dstChainAssets |-> <<>>, totalFlow |-> BigZero,
     tok |-> 1, balance |-> BigZero, fetch |-> NewFetch]

\* What the passes of a run of several have produced, in their order.
AlarmOuts == IF funIn.kind = "passes" /\ funOut # NoResult THEN funOut.outs ELSE <<>>

\* The tick calls the pass: on its own once, or one pass after the other.
AlarmCalled ==
    /\ ~crashed
    /\ alarmTask.pc = "idle"
    /\ \/ funIn.kind = "alarm" /\ funOut = NoResult
       \/ funIn.kind = "passes" /\ Len(AlarmOuts) < Len(funIn.passes)

\* What GetPropertytokenBasic returns to the call, when it returns no error.
AlarmBasics ==
    IF funIn.kind = "alarm" THEN funIn.basics ELSE funIn.passes[Len(AlarmOuts) + 1]

\* The pass ends: by a return (err: the error of line 577) or by a panic.
AlarmEnds(panic, err, lists, alert) ==
    LET out == [panic |-> panic, err |-> err,
                resAssetDetails |-> lists.resAssetDetails,
                extraAssetDetails |-> lists.extraAssetDetails, alert |-> alert]
    IN  funOut' = IF funIn.kind = "passes"
                  THEN [done |-> TRUE, outs |-> Append(AlarmOuts, out)]
                  ELSE [done |-> TRUE] @@ out

alarmFrame == <<chainVars, assetVars, tokens, dstTransfer, tokenStat, category, op,
                runVars, chainTask, addrTask, assetTask, adressTask, basicTask, tokenTask,
                funTask, funIn>>

\* The basic and the token the loops are at.
AlarmBasic == PropertyBasics[alarmTask.tokenBasics[alarmTask.next].basic]

AlarmToken == AlarmBasic.Tokens[alarmTask.tok]

\* What the node answers to every call of a fetch for the token.
AlarmAnswers == alarmTask.tokenBasics[alarmTask.next].fetches[AlarmToken.Hash]

\* A call whose two lists are not made by the call but are the ones the call
\* before it left behind (the lists declared outside the function).
startCheckAssetAlarm_575_ListsKept ==
    /\ AlarmCalled
    /\ \E err \in ErrOutcomes :
         /\ faults' = Spend(err)
         /\ IF err
            THEN /\ alarmTask' = [alarmTask EXCEPT !.pc = "idle"]
                 /\ AlarmEnds(FALSE, TRUE, IdleAlarmTask, NoAlert)
            ELSE /\ alarmTask' = [alarmTask EXCEPT !.pc = "579",
                                                   !.tokenBasics = AlarmBasics,
                                                   !.next = 1]
                 /\ funOut' = funOut
    /\ UNCHANGED <<alarmFrame, crashed>>

\* Lines 567-578: the call makes its two empty lists (572-573) and reads the
\* basics (575). An error of the read is returned at once (576-578); otherwise
\* the loop starts at the first basic (579).
startCheckAssetAlarm_575 ==
    /\ AlarmCalled
    /\ \E err \in ErrOutcomes :
         /\ faults' = Spend(err)
         /\ IF err
            THEN /\ alarmTask' = IdleAlarmTask
                 /\ AlarmEnds(FALSE, TRUE, IdleAlarmTask, NoAlert)
            ELSE /\ alarmTask' = [IdleAlarmTask EXCEPT !.pc = "579",
                                                       !.tokenBasics = AlarmBasics]
                 /\ funOut' = funOut
    /\ UNCHANGED <<alarmFrame, crashed>>

\* Lines 579-582: the next basic of the outer loop; its detail, its list of
\* chain assets and its total flow are made anew. After the last basic the
\* call goes on to sendDing (635).
startCheckAssetAlarm_579 ==
    /\ alarmTask.pc = "579"
    /\ alarmTask' =
         IF alarmTask.next > Len(alarmTask.tokenBasics)
         THEN [alarmTask EXCEPT !.pc = "635"]
         ELSE [alarmTask EXCEPT !.pc = "583", !.Reason = NoReason,
                                !.dstChainAssets = <<>>, !.totalFlow = BigZero,
                                !.tok = 1]
    /\ UNCHANGED <<alarmFrame, faults, funOut, crashed>>

\* Lines 583-592: the next token of the inner loop. A token notToken rejects
\* or whose Property is not 1 is passed over; for any other the balance is
\* fetched (593). After the last token the detail is completed (618).
startCheckAssetAlarm_583 ==
    /\ alarmTask.pc = "583"
    /\ alarmTask' =
         IF alarmTask.tok > Len(AlarmBasic.Tokens)
         THEN [alarmTask EXCEPT !.pc = "624"]
         ELSE IF notToken(AlarmToken) \/ AlarmToken.Property # 1
         THEN [alarmTask EXCEPT !.tok = @ + 1]
         ELSE [alarmTask EXCEPT !.pc = "593", !.fetch = NewFetch]
    /\ UNCHANGED <<alarmFrame, faults, funOut, crashed>>

\* Lines 593-599, one call of the node by getAndRetryBalance (773, 777). When
\* the function returns an error its text is the Reason of the detail and the
\* balance is 0.
startCheckAssetAlarm_593 ==
    /\ alarmTask.pc = "593"
    /\ LET answer == AlarmAnswers.balance
           next == getAndRetry(alarmTask.fetch, answer, BalanceRetries)
       IN  alarmTask' =
             IF next.pc = "sleep"
             THEN [alarmTask EXCEPT !.pc = "776", !.fetch = next]
             ELSE [alarmTask EXCEPT
                     !.pc = "600",
                     !.fetch = NewFetch,
                     !.Reason = IF next.err THEN answer.text ELSE @,
                     !.balance = IF next.err THEN BigZero ELSE next.value]
    /\ UNCHANGED <<alarmFrame, faults, funOut, crashed>>

\* Line 776: the second of sleep before a retry of the balance fetch.
startCheckAssetAlarm_776 ==
    /\ alarmTask.pc = "776"
    /\ alarmTask' = [alarmTask EXCEPT !.pc = "593", !.fetch = getAndRetry_Slept(@)]
    /\ UNCHANGED <<alarmFrame, faults, funOut, crashed>>

\* Line 600: the second of sleep between the two fetches of a token.
startCheckAssetAlarm_600 ==
    /\ alarmTask.pc = "600"
    /\ alarmTask' = [alarmTask EXCEPT !.pc = "601"]
    /\ UNCHANGED <<alarmFrame, faults, funOut, crashed>>

\* Lines 601-617, one call of the node by getAndRetryTotalSupply (787, 791).
\* When the function returns, an error sets the Reason and leaves 0 as the
\* supply; the entry of the token is made and appended and its Flow is added
\* to the total (607-616), and the inner loop goes on.
startCheckAssetAlarm_601 ==
    /\ alarmTask.pc = "601"
    /\ LET answer == AlarmAnswers.supply
           next == getAndRetry(alarmTask.fetch, answer, SupplyRetries)
           chainAsset == ChainAsset(AlarmBasic, AlarmToken, alarmTask.balance,
                                    IF next.err THEN BigZero ELSE next.value)
       IN  alarmTask' =
             IF next.pc = "sleep"
             THEN [alarmTask EXCEPT !.pc = "790", !.fetch = next]
             ELSE [alarmTask EXCEPT
                     !.pc = "583",
                     !.fetch = NewFetch,
                     !.Reason = IF next.err THEN answer.text ELSE @,
                     !.totalFlow = BigAdd(@, chainAsset.Flow),
                     !.dstChainAssets = Append(@, chainAsset),
                     !.tok = @ + 1]
    /\ UNCHANGED <<alarmFrame, faults, funOut, crashed>>

\* Line 790: the second of sleep before a retry of the supply fetch.
startCheckAssetAlarm_790 ==
    /\ alarmTask.pc = "790"
    /\ alarmTask' = [alarmTask EXCEPT !.pc = "601", !.fetch = getAndRetry_Slept(@)]
    /\ UNCHANGED <<alarmFrame, faults, funOut, crashed>>

\* Lines 618-634: the detail of the basic is completed, getO3Data looks the
\* externally-sourced entry up (http.Get for WBTC and USDT), and the detail is
\* appended to the list of its kind. A panic of getO3Data ends the process with
\* the pass unfinished.
startCheckAssetAlarm_624 ==
    /\ alarmTask.pc = "624"
    /\ ~crashed
    /\ LET assetDetail ==
               [BasicName |-> AlarmBasic.Name, Precision |-> AlarmBasic.Precision,
                Price |-> AlarmBasic.Price, Amount_usd |-> <<>>,
                TokenAsset |-> alarmTask.dstChainAssets,
                Difference |-> alarmTask.totalFlow, Reason |-> alarmTask.Reason]
           o3 == getO3Data(assetDetail, alarmTask.tokenBasics[alarmTask.next].o3)
       IN  IF o3.panic
           THEN /\ crashed' = TRUE
                /\ AlarmEnds(TRUE, FALSE, alarmTask, NoAlert)
                /\ UNCHANGED alarmTask
           ELSE /\ alarmTask' = [AppendDetail(alarmTask, o3.detail) EXCEPT
                                   !.pc = "579", !.next = @ + 1]
                /\ UNCHANGED <<funOut, crashed>>
    /\ UNCHANGED <<alarmFrame, faults>>

\* Lines 635-654: the loop is over. sendDing gets the list of details kept for
\* the alert and hands its message, when it has written one, to PostDingtext;
\* the pass returns.
startCheckAssetAlarm_635 ==
    /\ alarmTask.pc = "635"
    /\ AlarmEnds(FALSE, FALSE, alarmTask, sendDing(alarmTask.resAssetDetails))
    /\ alarmTask' = [alarmTask EXCEPT !.pc = "idle"]
    /\ UNCHANGED <<alarmFrame, faults, crashed>>

(* ------------------------------------------------------------------ *)
(* computeTokenStatistics: the body of the loop for one row            *)
(* ------------------------------------------------------------------ *)

\* A decimal is kept as a whole number of 10^-16, the places decimal.Div keeps.
\* decimal.New(Price, 0).Div(PRICE_PRECISION), PRICE_PRECISION = 10^8
PriceNew(price) == BigDiv16Pow10(price, 8)

\* Lines 264, 273, 291: amount / 10^precision * 100 with the fraction cut off.
ScaledAmount(amount, precision) ==
    BigQuoPow10(BigMulPow10(BigDiv16Pow10(amount, precision), 2), 16)

\* Lines 277, 279 and 293, 297: the amount at the price, in 1/100 dollars.
AmountUsdField(amount, price) ==
    BigQuoPow10(BigMulPow10(BigMul(amount, PriceNew(price)), 2), 16)

\* Lines 278, 280 and 294, 298: the dollar amount over the BTC price, in 1/100.
AmountBtcField(amount, price, btcPrice) ==
    LET amountUsd == BigMul(amount, PriceNew(price))
    IN  BigQuoPow10(BigMulPow10(BigDiv16(amountUsd, PriceNew(btcPrice)), 2), 16)

\* addDecimalBigInt (lines 536-541)
addDecimalBigInt(a, b) == BigAdd(a, b)

RECURSIVE SumRange(_, _, _)
SumRange(stream, lastId, nowId) ==
    IF nowId <= lastId \/ nowId = 0 THEN BigZero
    ELSE IF nowId > Len(stream) THEN SumRange(stream, lastId, Len(stream))
    ELSE BigAdd(stream[nowId], SumRange(stream, lastId, nowId - 1))

CountRange(stream, lastId, nowId) ==
    Cardinality({i \in 1..Len(stream) : lastId < i /\ i <= nowId})

NoEntry == [found |-> FALSE, Amount |-> BigZero, Counter |-> 0]

\* CalculateInTokenStatistics / CalculateOutTokenStatistics(chain, hash, lastId,
\* nowId) on the transfers of the row's token: the amounts and the count of the
\* transfers with Id in (lastId, nowId]; no entry when there is none or when
\* the query fails.
CalculateTokenStatistics(stream, lastId, nowId, qErr) ==
    IF qErr \/ CountRange(stream, lastId, nowId) = 0 THEN NoEntry
    ELSE [found |-> TRUE, Amount |-> SumRange(stream, lastId, nowId),
          Counter |-> CountRange(stream, lastId, nowId)]

\* Lines 277-280: the dollar and BTC value of the inbound amount.
InboundValued(row, token, btcPrice) ==
    [row EXCEPT
       !.InAmountUsd = AmountUsdField(row.InAmount, token.TokenBasic.Price),
       !.InAmountBtc = AmountBtcField(row.InAmount, token.TokenBasic.Price, btcPrice)]

\* Lines 259-265 and 277-280, the row of the home chain once getAndRetryBalance
\* has returned: the inbound amount is the scaled balance, or is kept when the
\* function returned an error.
FoldTokenBalance(row, token, fetch, btcPrice) ==
    InboundValued([row EXCEPT
                     !.InAmount = IF fetch.err THEN @
                                  ELSE ScaledAmount(fetch.value, token.Precision)],
                  token, btcPrice)

\* Lines 267-280, the row of another chain: the entry of the inbound range
\* query is added.
FoldTokenIn(row, token, in, btcPrice) ==
    InboundValued(IF in.found
                  THEN [row EXCEPT
                          !.InAmount = addDecimalBigInt(@, ScaledAmount(in.Amount,
                                                                        token.Precision)),
                          !.InCounter = addDecimalInt64(@, in.Counter)]
                  ELSE row,
                  token, btcPrice)

\* Lines 282-301: the entry of the outbound range query is folded (the amount
\* of a home row is set to 0) and valued, and the two checkpoints are set.
FoldTokenOut(row, token, out, btcPrice, nowInId, nowOutId) ==
    LET home == token.TokenBasic.ChainId = row.ChainId
        outAmount == IF home THEN BigZero
                     ELSE addDecimalBigInt(row.OutAmount,
                                           ScaledAmount(out.Amount, token.Precision))
        folded == IF out.found
                  THEN [row EXCEPT
                          !.OutAmount = outAmount,
                          !.OutCounter = addDecimalInt64(@, out.Counter),
                          !.OutAmountUsd = AmountUsdField(outAmount, token.TokenBasic.Price),
                          !.OutAmountBtc = AmountBtcField(outAmount, token.TokenBasic.Price,
                                                          btcPrice)]
                  ELSE row
    IN  [folded EXCEPT !.LastInCheckId = nowInId, !.LastOutCheckId = nowOutId]

\* The key of a row in token_statistics.
RowKey(statistic) == [chainId |-> statistic.ChainId, hash |-> statistic.Hash]

rowFrame == <<chainVars, assetVars, tokens, dstTransfer, category, faults, op, runVars,
              chainTask, addrTask, assetTask, adressTask, basicTask, alarmTask, funTask,
              funIn>>

\* Lines 249-306 for one row, call by call. funIn holds the row and what the
\* collaborators answer: lookup, the answer of GetTokenBasicByHash, "found"
\* (the token, no error), "missing" (no token, an error), "partial" (a token
\* and an error); call, the transfers of the row's token in the two streams (a
\* transfer's Id is its position), the answer of the node to every call of the
\* balance read, the failures of the two range queries and of the save, the
\* BTC price. tokenTask holds the row the loop works on.
\*
\* Lines 249-258. Line 251 passes over the row when there is no error; with no
\* token line 255 reads a nil pointer.
TokenRow_250 ==
    /\ funIn.kind = "row"
    /\ funOut = NoResult
    /\ ~crashed
    /\ tokenTask.pc = "idle"
    /\ IF funIn.lookup = "partial"
       THEN /\ tokenTask' =
                 [IdleTokenTask EXCEPT
                    !.pc = IF funIn.token.TokenBasic.ChainId = funIn.statistic.ChainId
                           THEN "259" ELSE "267",
                    !.row = funIn.statistic]
            /\ UNCHANGED <<funOut, crashed>>
       ELSE /\ funOut' = [done |-> TRUE, saved |-> FALSE, row |-> funIn.statistic]
            /\ crashed' = (funIn.lookup = "missing")
            /\ UNCHANGED tokenTask
    /\ UNCHANGED <<rowFrame, tokenStat>>

\* Lines 259-265 and 277-280, one call of the node by getAndRetryBalance (773,
\* 777).
TokenRow_259 ==
    /\ funIn.kind = "row"
    /\ tokenTask.pc = "259"
    /\ LET next == getAndRetry(tokenTask.fetch, funIn.call.balance, BalanceRetries)
       IN  tokenTask' =
             IF next.pc = "sleep"
             THEN [tokenTask EXCEPT !.pc = "776", !.fetch = next]
             ELSE [tokenTask EXCEPT
                     !.pc = "282",
                     !.fetch = NewFetch,
                     !.row = FoldTokenBalance(@, funIn.token, next, funIn.call.btcPrice)]
    /\ UNCHANGED <<rowFrame, tokenStat, funOut, crashed>>

\* Line 776: the second of sleep before a retry of the balance read.
TokenRow_776 ==
    /\ funIn.kind = "row"
    /\ tokenTask.pc = "776"
    /\ tokenTask' = [tokenTask EXCEPT !.pc = "259", !.fetch = getAndRetry_Slept(@)]
    /\ UNCHANGED <<rowFrame, tokenStat, funOut, crashed>>

\* Lines 267-280: the inbound range query, between the inbound cursor and mark.
TokenRow_267 ==
    /\ funIn.kind = "row"
    /\ tokenTask.pc = "267"
    /\ LET in == CalculateTokenStatistics(funIn.call.dst, tokenTask.row.LastInCheckId,
                                          Len(funIn.call.dst), funIn.call.inErr)
       IN  tokenTask' =
             [tokenTask EXCEPT
                !.pc = "282",
                !.row = FoldTokenIn(@, funIn.token, in, funIn.call.btcPrice)]
    /\ UNCHANGED <<rowFrame, tokenStat, funOut, crashed>>

\* Lines 282-301: the outbound range query, over the source stream between
\* the inbound cursor and mark (line 282 passes LastInCheckId and nowInId).
TokenRow_282 ==
    /\ funIn.kind = "row"
    /\ tokenTask.pc = "282"
    /\ LET nowInId == Len(funIn.call.dst)
           out == CalculateTokenStatistics(funIn.call.src, tokenTask.row.LastInCheckId,
                                           nowInId, funIn.call.outErr)
       IN  tokenTask' =
             [tokenTask EXCEPT
                !.pc = "302",
                !.row = FoldTokenOut(@, funIn.token, out, funIn.call.btcPrice, nowInId,
                                     Len(funIn.call.src))]
    /\ UNCHANGED <<rowFrame, tokenStat, funOut, crashed>>

\* Lines 302-306: the row is saved; an error of the save returns from the pass
\* and leaves the stored row as it was.
TokenRow_302 ==
    /\ funIn.kind = "row"
    /\ tokenTask.pc = "302"
    /\ tokenStat' = IF funIn.call.saveErr THEN tokenStat
                    ELSE SaveTokenStatistic(RowKey(tokenTask.row), tokenTask.row)
    /\ funOut' = [done |-> TRUE, saved |-> ~funIn.call.saveErr, row |-> tokenTask.row]
    /\ tokenTask' = IdleTokenTask
    /\ UNCHANGED <<rowFrame, crashed>>

(* ------------------------------------------------------------------ *)
(* computeAssetStatistics: the body of the loop for one row            *)
(* ------------------------------------------------------------------ *)

\* Lines 476-484: the row of a basic that has none yet, valuations included.
NewAssetRow ==
    [Amount |-> BigZero, AmountUsd |-> BigZero, AmountBtc |-> BigZero,
     Txnum |-> 0, LastCheckId |-> 0]

\* Lines 498-509 for one assetInfo: the amount in units, its dollar and BTC
\* value at the info's price, each scaled, added to the stored field and cut
\* to an integer.
FoldAssetInfoValued(old, assetInfo, btcPrice) ==
    LET real_amount == BigDiv16Pow10(assetInfo.Amount, assetInfo.Precision)
        amount_usd == BigMul(real_amount, PriceNew(assetInfo.Price))
        amount_btc == BigDiv16(amount_usd, BigMulPow10(PriceNew(btcPrice), 16))
    IN  [old EXCEPT
           !.Amount = BigAdd(BigQuoPow10(BigMulPow10(real_amount, 2), 16), @),
           !.AmountUsd = BigAdd(BigQuoPow10(BigMulPow10(amount_usd, 4), 32), @),
           !.AmountBtc = BigAdd(BigQuoPow10(BigMulPow10(amount_btc, 4), 16), @),
           !.Txnum = @ + assetInfo.Txnum]

RECURSIVE FoldAssetInfosValued(_, _, _, _)
FoldAssetInfosValued(old, assetInfos, j, btcPrice) ==
    IF j > Len(assetInfos) THEN old
    ELSE FoldAssetInfosValued(FoldAssetInfoValued(old, assetInfos[j], btcPrice), assetInfos,
                        j + 1, btcPrice)

\* Lines 492-511: the row handed to SaveAssetStatistic.
FoldAssetRowValued(old, assetInfos, nowId, btcPrice) ==
    [FoldAssetInfosValued(old, assetInfos, 1, btcPrice) EXCEPT !.LastCheckId = nowId]

\* The basic whose row the passes work on.
AssetRowName == "USDT"

\* The passes that have returned.
AssetPasses == IF funOut = NoResult THEN 0 ELSE funOut.n

\* The source transfers of the basic that have arrived when the k-th pass
\* reads its mark: the amounts of the passes up to the k-th, in their order (a
\* transfer's Id is its position).
RECURSIVE AssetLedger(_)
AssetLedger(k) ==
    IF k = 0 THEN <<>> ELSE AssetLedger(k - 1) \o funIn.passes[k].amounts

\* CalculateAssets(name, lastId, nowId) on the transfers of the basic: an
\* entry per transfer with Id in (lastId, nowId], at the price of the basic
\* when the query is made.
CalculateAssetsValued(ledger, lastId, nowId, price) ==
    LET ids == SelectSeq([i \in 1..Len(ledger) |-> i],
                         LAMBDA i : lastId < i /\ i <= nowId)
    IN  [j \in 1..Len(ids) |->
           [Amount |-> ledger[ids[j]], Precision |-> 3, Price |-> price, Txnum |-> 1]]

assetRowFrame == <<chainVars, basics, srcTransfer, tokenBasic, tokenVars, category,
                   faults, op, runVars, chainTask, addrTask, adressTask, basicTask,
                   tokenTask, alarmTask, funTask, funIn>>

\* Lines 492-511 in one pass of computeAssetStatistics over the row of one
\* basic, the passes one after the other. The row is the one GetAssetStatistic
\* returned to the pass, the stored one, or the row lines 476-484 make when
\* there is none. A pass holds the price of the basic at its time, the
\* transfers that have arrived since the pass before, and the failures of its
\* range query and of its save. An error of CalculateAssets is logged: nothing
\* is folded and the checkpoint is set to the mark all the same.
AssetFold_493 ==
    /\ funIn.kind = "asset"
    /\ ~crashed
    /\ assetTask.pc = "idle"
    /\ AssetPasses < Len(funIn.passes)
    /\ LET pass == funIn.passes[AssetPasses + 1]
           ledger == AssetLedger(AssetPasses + 1)
           old == IF AssetRowName \in DOMAIN assetStat THEN assetStat[AssetRowName]
                  ELSE NewAssetRow
           assetInfos == IF pass.qErr THEN <<>>
                         ELSE CalculateAssetsValued(ledger, old.LastCheckId, Len(ledger),
                                                    pass.price)
       IN  assetTask' =
             [IdleAssetTask EXCEPT
                !.pc = "512", !.nowId = Len(ledger), !.cur = AssetRowName,
                !.row = FoldAssetRowValued(old, assetInfos, Len(ledger), funIn.btcPrice)]
    /\ UNCHANGED <<assetRowFrame, assetStat, funOut>>

\* Lines 512-515: the row is saved; an error of the save returns from the pass
\* and leaves the stored row as it was.
AssetFold_512 ==
    /\ funIn.kind = "asset"
    /\ assetTask.pc = "512"
    /\ LET pass == funIn.passes[AssetPasses + 1]
       IN  /\ assetStat' = IF pass.sErr THEN assetStat
                           ELSE SaveAssetStatistic(assetTask.cur, assetTask.row)
           /\ funOut' = [done |-> TRUE, n |-> AssetPasses + 1, saved |-> ~pass.sErr,
                         row |-> assetTask.row]
    /\ assetTask' = IdleAssetTask
    /\ UNCHANGED assetRowFrame

(* ------------------------------------------------------------------ *)
(* Specifications                                                     *)
(* ------------------------------------------------------------------ *)

\* The tables of the chain category, empty.
InitChainTables ==
    /\ chains = {}
    /\ dstTxn = <<>>
    /\ srcTxn = <<>>
    /\ polyTxn = 0
    /\ chainStat = <<>>

\* The tables of the asset category, empty.
InitAssetTables ==
    /\ basics = {}
    /\ srcTransfer = <<>>
    /\ assetStat = <<>>
    /\ tokenBasic = [n \in BasicNames |-> ZeroTokenBasic]

\* The catalog and the ledger of the token category, empty.
InitTokenLedger ==
    /\ tokens = {}
    /\ dstTransfer = <<>>

\* No pass is under way and the service is not started.
InitIdle ==
    /\ crashed = FALSE
    /\ op = EnvOp
    /\ started = FALSE
    /\ taskPc = [t \in Tasks |-> "none"]
    /\ inflight = [t \in Tasks |-> 0]
    /\ cancelled = FALSE
    /\ wg = 0
    /\ stopPc = "idle"
    /\ chainTask = IdleChainTask
    /\ addrTask = IdleAddrTask
    /\ assetTask = IdleAssetTask
    /\ adressTask = IdleAdressTask
    /\ basicTask = IdleBasicTask
    /\ tokenTask = IdleTokenTask
    /\ alarmTask = IdleAlarmTask
    /\ funTask = IdleFunTask

InitTables ==
    /\ InitChainTables
    /\ InitAssetTables
    /\ InitTokenLedger
    /\ tokenStat = <<>>
    /\ InitIdle

\* The calls of the store may return errors.
InitStore == InitTables /\ faults = MaxFaults

\* No function is under check.
FunIdle ==
    /\ funIn = [kind |-> "none"]
    /\ funOut = NoFetch

Init ==
    /\ category \in Categories
    /\ InitTables
    /\ faults = (IF category = "token" THEN MaxTokenFaults ELSE MaxFaults)
    /\ FunIdle

\* The steps of the two goroutines that write chain_statistics, and of the
\* ledgers and the catalog they read.
NextOwn ==
    \/ computeChainStatistics_312
    \/ computeChainStatistics_316
    \/ computeChainStatistics_321
    \/ computeChainStatistics_328
    \/ computeChainStatistics_335
    \/ computeChainStatistics_340
    \/ computeChainStatistics_348
    \/ computeChainStatistics_353
    \/ computeChainStatistics_396
    \/ computeChainStatistics_407
    \/ computeChainStatisticAssets_417
    \/ computeChainStatisticAssets_422
    \/ computeChainStatisticAssets_441
    \/ AppendDstTxn
    \/ AppendSrcTxn
    \/ AppendPolyTxn
    \/ AddChain
    \/ RemoveChain

\* The steps of the chain, asset and token-basic passes and of what they read.
NextClean ==
    \/ NextOwn
    \/ computeAssetStatistics_452
    \/ computeAssetStatistics_458
    \/ computeAssetStatistics_467
    \/ computeAssetStatistics_487
    \/ computeAssetStatistics_493
    \/ computeAssetStatistics_512
    \/ computeAssetStatisticAdress_524
    \/ computeAssetStatisticAdress_529
    \/ computeStats_111
    \/ computeTokenBasicStats_136
    \/ computeTokenBasicStats_143
    \/ computeTokenBasicStats_159
    \/ AppendSrcTransfer
    \/ AddBasic
    \/ RemoveBasic

\* The steps of the token pass, and of what it reads beside the source
\* transfers.
NextToken ==
    \/ computeTokenStatistics_188
    \/ computeTokenStatistics_193
    \/ computeTokenStatistics_198
    \/ computeTokenStatistics_202
    \/ computeTokenStatistics_243
    \/ computeTokenStatistics_250
    \/ computeTokenStatistics_259
    \/ computeTokenStatistics_776
    \/ computeTokenStatistics_267
    \/ computeTokenStatistics_282
    \/ computeTokenStatistics_302
    \/ AppendDstTransfer
    \/ AddToken

Next == NextClean \/ NextToken

Spec == Init /\ [][Next]_vars

\* The passes with every collaborator call succeeding. The token pass, which
\* folds a row only after a failed lookup (line 251), is left out.
InitClean ==
    /\ InitTables
    /\ faults = 0
    /\ category \in Categories \ {"token"}
    /\ FunIdle

SpecClean == InitClean /\ [][NextClean]_vars

(* ------------------------------------------------------------------ *)
(* Start / run / Stop                                                 *)
(* ------------------------------------------------------------------ *)

\* Lines 90-101: Start launches one goroutine per pass and returns.
Start ==
    /\ ~started
    /\ started' = TRUE
    /\ taskPc' = [t \in Tasks |-> "spawned"]
    /\ UNCHANGED <<statsVars, passVars, funVars, inflight, cancelled, wg, stopPc>>

\* Lines 74-75: the goroutine is scheduled, registers with the wait group and
\* reaches the select of its loop.
RunEnter(t) ==
    /\ taskPc[t] = "spawned"
    /\ wg' = wg + 1
    /\ taskPc' = [taskPc EXCEPT ![t] = "select"]
    /\ UNCHANGED <<statsVars, passVars, funVars, started, inflight, cancelled, stopPc>>

\* A loop that hands the pass to a goroutine of its own on every tick and
\* goes back to the select at once.
RunTick_Async(t) ==
    /\ taskPc[t] = "select"
    /\ inflight[t] < NumTasks
    /\ inflight' = [inflight EXCEPT ![t] = @ + 1]
    /\ UNCHANGED <<statsVars, passVars, funVars, started, taskPc, cancelled, wg, stopPc>>

\* Lines 78-79: the ticker case of the select is taken and the goroutine calls
\* the pass function itself; ticks of the ticker are received nowhere else.
\* A closed Done channel does not disable the ticker case.
RunTick(t) ==
    /\ taskPc[t] = "select"
    /\ taskPc' = [taskPc EXCEPT ![t] = "pass"]
    /\ inflight' = [inflight EXCEPT ![t] = @ + 1]
    /\ UNCHANGED <<statsVars, passVars, funVars, started, cancelled, wg, stopPc>>

\* Lines 79-82: the pass returns, its error is logged, the loop goes round.
RunPassReturns(t) ==
    /\ taskPc[t] = "pass"
    /\ taskPc' = [taskPc EXCEPT ![t] = "select"]
    /\ inflight' = [inflight EXCEPT ![t] = @ - 1]
    /\ UNCHANGED <<statsVars, passVars, funVars, started, cancelled, wg, stopPc>>

\* Lines 83-84: the Done case of the select is taken; the break leaves the
\* select statement, and the for loop goes round to the select again.
RunDoneBreak(t) ==
    /\ taskPc[t] = "select"
    /\ cancelled
    /\ taskPc' = [taskPc EXCEPT ![t] = "select"]
    /\ UNCHANGED <<statsVars, passVars, funVars, started, inflight, cancelled, wg, stopPc>>

\* Lines 103-105: Stop cancels the context and starts to wait.
StopCancel ==
    /\ started
    /\ stopPc = "idle"
    /\ cancelled' = TRUE
    /\ stopPc' = "waiting"
    /\ UNCHANGED <<statsVars, passVars, funVars, started, taskPc, inflight, wg>>

\* Line 106: wg.Wait returns when the counter is zero.
StopReturns ==
    /\ stopPc = "waiting"
    /\ wg = 0
    /\ stopPc' = "returned"
    /\ UNCHANGED <<statsVars, passVars, funVars, started, taskPc, inflight, cancelled, wg>>

NextRun ==
    \/ Start
    \/ \E t \in Tasks : RunEnter(t)
    \/ \E t \in Tasks : RunTick(t)
    \/ \E t \in Tasks : RunPassReturns(t)
    \/ \E t \in Tasks : RunDoneBreak(t)
    \/ StopCancel
    \/ StopReturns

\* The goroutines are scheduled, every pass a goroutine runs returns, and the
\* caller of Stop runs.
InitRun == Init /\ category = "chain"

SpecRun ==
    InitRun /\ [][NextRun]_vars
    /\ (\A t \in Tasks : WF_vars(RunEnter(t)) /\ WF_vars(RunPassReturns(t)))
    /\ WF_vars(StopReturns)

(* ------------------------------------------------------------------ *)
(* Claims                                                             *)
(* ------------------------------------------------------------------ *)

\* The accumulated counts of a chain row are the records of its key up to its
\* checkpoints (the relay row: the relay records up to its checkpoint).
ChainRowExact(k) ==
    LET row == chainStat[k]
    IN  IF k = POLY_CROSSCHAIN_ID
        THEN /\ row.In = CalculatePolyChainStatistic(0, row.LastInCheckId)
             /\ row.Out = CalculatePolyChainStatistic(0, row.LastOutCheckId)
        ELSE /\ row.In = CountKey(dstTxn, k, 0, row.LastInCheckId)
             /\ row.Out = CountKey(srcTxn, k, 0, row.LastOutCheckId)

AssetRowExact(n) ==
    assetStat[n].Txnum = CountName(srcTransfer, n, 0, assetStat[n].LastCheckId)

\* C1: exactly-once accounting. After any sequence of completed chain and asset
\* passes, every row's count equals the number of ledger records of its key
\* with Id in (0, checkpoint].
C1_ExactlyOnce ==
    /\ \A k \in DOMAIN chainStat : ChainRowExact(k)
    /\ \A n \in DOMAIN assetStat : AssetRowExact(n)

\* The asset half of C1 alone.
AssetExactlyOnce == \A n \in DOMAIN assetStat : AssetRowExact(n)

\* The chain half of C1 for the rows of the source/destination streams alone.
NonRelayExactlyOnce ==
    \A k \in DOMAIN chainStat \ {POLY_CROSSCHAIN_ID} : ChainRowExact(k)

\* Every row of the source/destination streams holds the same two cursors.
NonRelayCursorsAgree ==
    \A j, k \in DOMAIN chainStat \ {POLY_CROSSCHAIN_ID} :
        /\ chainStat[j].LastInCheckId = chainStat[k].LastInCheckId
        /\ chainStat[j].LastOutCheckId = chainStat[k].LastOutCheckId

\* C2: checkpoint monotonicity. No stored checkpoint decreases in any step,
\* whatever call of the pass fails.
C2_CheckpointMonotone ==
    [][/\ \A k \in DOMAIN chainStat :
            /\ k \in DOMAIN chainStat'
            /\ chainStat'[k].LastInCheckId >= chainStat[k].LastInCheckId
            /\ chainStat'[k].LastOutCheckId >= chainStat[k].LastOutCheckId
       /\ \A n \in DOMAIN assetStat :
            /\ n \in DOMAIN assetStat'
            /\ assetStat'[n].LastCheckId >= assetStat[n].LastCheckId
       /\ \A n \in BasicNames :
            tokenBasic'[n].StatsUpdateTime >= tokenBasic[n].StatsUpdateTime
       /\ \A t \in DOMAIN tokenStat :
            /\ t \in DOMAIN tokenStat'
            /\ tokenStat'[t].LastInCheckId >= tokenStat[t].LastInCheckId
            /\ tokenStat'[t].LastOutCheckId >= tokenStat[t].LastOutCheckId]_vars

\* C2 for the steps of the chain-statistic pass alone.
ChainPassCheckpointMonotone ==
    [][chainTask.pc = "407" =>
          \A k \in DOMAIN chainStat :
             /\ chainStat'[k].LastInCheckId >= chainStat[k].LastInCheckId
             /\ chainStat'[k].LastOutCheckId >= chainStat[k].LastOutCheckId]_vars

\* The steps in which computeChainStatistics (407), computeAssetStatistics
\* (512) and computeTokenBasicStats (159) call the save of the store.
ChainSaveStep == chainTask.pc = "407" /\ chainTask'.pc = "idle"

AssetSaveStep == assetTask.pc = "512" /\ assetTask'.pc \in {"493", "idle"}

BasicSaveStep == basicTask.pc = "159" /\ basicTask'.pc \in {"136", "idle"}

\* The step in which computeTokenBasicStats goes on from the last transfer
\* (136) to the aggregate query (143).
BasicQueryStep == basicTask.pc = "136" /\ basicTask'.pc = "143"

\* The checkpoints and the accumulated totals of the tables the passes write.
Accumulators ==
    <<[k \in DOMAIN chainStat |->
          <<chainStat[k].In, chainStat[k].Out, chainStat[k].LastInCheckId,
            chainStat[k].LastOutCheckId>>],
      [n \in DOMAIN assetStat |->
          <<assetStat[n].Txnum, assetStat[n].Amount, assetStat[n].LastCheckId>>],
      tokenBasic, tokenStat>>

\* A step of a pass that began directly after a completed pass of its
\* category, with nothing arriving in between or since.
RepeatStep ==
    /\ op.name = "begin" /\ op.repeat
    /\ \/ chainTask' # chainTask
       \/ assetTask' # assetTask
       \/ basicTask' # basicTask
       \/ tokenTask' # tokenTask

\* C3: idempotent no-op. A pass that directly follows a completed pass of its
\* category (no record has arrived since) leaves every persisted checkpoint
\* and every persisted total of the category unchanged.
C3_IdempotentNoOp ==
    [][RepeatStep => Accumulators' = Accumulators]_vars

\* C3 for the token-basic and asset categories alone, whose accumulators no
\* other task writes and whose rows every pass folds.
IdempotentAssetAndBasic ==
    [][(RepeatStep /\ category \in {"asset", "basic"}) =>
          Accumulators' = Accumulators]_vars

\* C3 for the token category alone.
IdempotentToken ==
    [][(RepeatStep /\ category = "token") => Accumulators' = Accumulators]_vars

\* The rows a step persisted: the saves attempted that did not fail.
Persisted == op'.attempted \ op'.sfail

\* The stored row a save replaces, or the row the pass made.
PrevChainRow(k) ==
    IF k \in DOMAIN chainStat THEN chainStat[k]
    ELSE NewChainStatistic(chainTask.nowInId, chainTask.nowOutId)

PrevAssetRow(n) == IF n \in DOMAIN assetStat THEN assetStat[n] ELSE NewAssetStatistic

AdditiveChainRow(k) ==
    LET prev == PrevChainRow(k)
        new == chainStat'[k]
    IN  IF k = POLY_CROSSCHAIN_ID
        THEN "poly" \notin chainTask.qfail =>
               LET read == IF k \in DOMAIN chainTask.rows THEN chainTask.rows[k]
                           ELSE NewChainStatistic(chainTask.nowInId, chainTask.nowOutId)
                   d == CalculatePolyChainStatistic(read.LastInCheckId,
                                                    chainTask.polyCheckId)
               IN  new.In = prev.In + d /\ new.Out = prev.Out + d
        ELSE /\ "in" \notin chainTask.qfail =>
                  new.In = prev.In + CountKey(dstTxn, k, chainTask.ref.LastInCheckId,
                                              new.LastInCheckId)
             /\ "out" \notin chainTask.qfail =>
                  new.Out = prev.Out + CountKey(srcTxn, k, chainTask.ref.LastOutCheckId,
                                                new.LastOutCheckId)

AdditiveAssetRow(n) ==
    LET prev == PrevAssetRow(n)
        new == assetStat'[n]
    IN  n \notin assetTask.qfail =>
          /\ new.Txnum = prev.Txnum
                + CountName(srcTransfer, n, prev.LastCheckId, new.LastCheckId)
          /\ new.Amount = prev.Amount
                + (SumAmount(srcTransfer, n, prev.LastCheckId, new.LastCheckId) * 100)
                     \div Pow10(PrecisionOf(n))

AdditiveBasicRow(n) ==
    LET prev == tokenBasic[n]
        new == tokenBasic'[n]
        dc == CountName(srcTransfer, n, prev.StatsUpdateTime, new.StatsUpdateTime)
        da == SumAmount(srcTransfer, n, prev.StatsUpdateTime, new.StatsUpdateTime)
    IN  \/ /\ new.TotalCount = prev.TotalCount + dc
           /\ new.TotalAmount = prev.TotalAmount + da
        \/ /\ prev.StatsUpdateTime = 0
           /\ new.TotalCount = dc
           /\ new.TotalAmount = da

\* C4: additive fold. Every row a pass persists after a successful range query
\* holds, in each accumulator, its previous persisted value plus the delta of
\* the range (previous checkpoint, new checkpoint]; a total is taken from the
\* delta alone only when the checkpoint read was 0.
C4_AdditiveFold ==
    [][/\ (ChainSaveStep /\ Persisted # {}) =>
             \A k \in DOMAIN chainTask.list : AdditiveChainRow(k)
       /\ (AssetSaveStep /\ assetStat' # assetStat) => AdditiveAssetRow(assetTask.cur)
       /\ (BasicSaveStep /\ tokenBasic' # tokenBasic) =>
             AdditiveBasicRow(basicTask.cur)]_vars

\* C4 for the asset and token-basic passes alone, whose accumulators no other
\* task writes.
AssetAndBasicAdditive ==
    [][/\ (AssetSaveStep /\ assetStat' # assetStat) => AdditiveAssetRow(assetTask.cur)
       /\ (BasicSaveStep /\ tokenBasic' # tokenBasic) =>
             AdditiveBasicRow(basicTask.cur)]_vars

\* C4 for the chain pass relative to the rows it read: every accumulator it
\* saves is the one it loaded plus the delta.
ChainAdditiveOverLoaded ==
    [][(ChainSaveStep /\ Persisted # {}) =>
          \A k \in DOMAIN chainTask.list \ {POLY_CROSSCHAIN_ID} :
             LET prev == IF k \in DOMAIN chainTask.rows THEN chainTask.rows[k]
                         ELSE NewChainStatistic(chainTask.nowInId, chainTask.nowOutId)
             IN  /\ "in" \notin chainTask.qfail =>
                       chainStat'[k].In = prev.In
                          + CountKey(dstTxn, k, chainTask.ref.LastInCheckId,
                                     chainTask.nowInId)
                 /\ "out" \notin chainTask.qfail =>
                       chainStat'[k].Out = prev.Out
                          + CountKey(srcTxn, k, chainTask.ref.LastOutCheckId,
                                     chainTask.nowOutId)]_vars

\* C5: checkpoint and totals are durable together. In every step, a row whose
\* checkpoint moves from c to c2 gains exactly the records of its key in
\* (c, c2] (a row that did not exist counts from 0), and a row whose total
\* moves has its checkpoint moved in the same step.
C5_CheckpointWithTotals ==
    [][/\ \A k \in DOMAIN chainStat' \ {POLY_CROSSCHAIN_ID} :
            LET prev == IF k \in DOMAIN chainStat THEN chainStat[k] ELSE ZeroChainRow
                new == chainStat'[k]
            IN  /\ new.In = prev.In + CountKey(dstTxn, k, prev.LastInCheckId,
                                               new.LastInCheckId)
                /\ new.Out = prev.Out + CountKey(srcTxn, k, prev.LastOutCheckId,
                                                 new.LastOutCheckId)
       /\ \A n \in DOMAIN assetStat' :
            LET prev == PrevAssetRow(n)
                new == assetStat'[n]
            IN  new.Txnum = prev.Txnum
                   + CountName(srcTransfer, n, prev.LastCheckId, new.LastCheckId)
       /\ \A n \in BasicNames :
            tokenBasic'[n].TotalCount = tokenBasic[n].TotalCount
                + CountName(srcTransfer, n, tokenBasic[n].StatsUpdateTime,
                            tokenBasic'[n].StatsUpdateTime)]_vars

\* C6: a failed delta query does not advance checkpoints. A pass one of whose
\* range queries returned an error persists no row whose checkpoint has moved
\* past the range that query was to scan.
C6_FailedQueryKeepsCheckpoint ==
    [][/\ (ChainSaveStep /\ "in" \in chainTask.qfail) =>
            \A k \in DOMAIN chainStat' \ {POLY_CROSSCHAIN_ID} :
                /\ k \in DOMAIN chainStat
                /\ chainStat'[k].LastInCheckId <= chainTask.ref.LastInCheckId
       /\ (ChainSaveStep /\ "out" \in chainTask.qfail) =>
            \A k \in DOMAIN chainStat' \ {POLY_CROSSCHAIN_ID} :
                /\ k \in DOMAIN chainStat
                /\ chainStat'[k].LastOutCheckId <= chainTask.ref.LastOutCheckId
       /\ (AssetSaveStep /\ assetTask.cur \in assetTask.qfail
              /\ assetTask.cur \in DOMAIN assetStat') =>
            assetStat'[assetTask.cur].LastCheckId
               <= assetTask.list[assetTask.cur].LastCheckId
       /\ \A n \in BasicNames :
            tokenBasic'[n] # tokenBasic[n] =>
               /\ BasicSaveStep
               /\ n = basicTask.cur
               /\ n \notin basicTask.qfail]_vars

\* C7: per-row persistence isolation. In a pass where the save of a row failed,
\* the save of every row of the pass was attempted.
C7_SaveFailureIsolated ==
    (op.name \in Categories /\ op.sfail # {}) => op.attempted = op.listed

\* C8: row existence. After a completed pass of a category a row is stored for
\* every key of the catalog the category keeps statistics for.
C8_RowForEveryKey ==
    /\ (op.name = "chain" /\ CleanPass(op) /\ op.quiet) => chains \subseteq DOMAIN chainStat
    /\ (op.name = "asset" /\ CleanPass(op) /\ op.quiet) => AssetNames \subseteq DOMAIN assetStat
    /\ (op.name = "token" /\ CleanPass(op) /\ op.quiet) =>
          StatisticTokens \subseteq DOMAIN tokenStat

\* The asset third of C8 alone.
AssetRowForEveryKey ==
    (op.name = "asset" /\ CleanPass(op) /\ op.quiet) => AssetNames \subseteq DOMAIN assetStat

\* C24: the token-statistic fold reaches every row. After a pass during which
\* nothing arrived, every row whose catalog lookup succeeded is stored with
\* LastInCheckId at the highest destination-transfer Id and LastOutCheckId at
\* the highest source-transfer Id.
C24_FoldReachesEveryRow ==
    (op.name = "token" /\ ~op.abort /\ ~crashed /\ op.quiet) =>
      \A t \in op.listed \ op.qfail :
        /\ t \in DOMAIN tokenStat
        /\ tokenStat[t].LastInCheckId = HighestDstTransferId
        /\ tokenStat[t].LastOutCheckId = HighestSrcTransferId

\* C9: stale rows are left untouched. A row whose key the statistic set holds
\* and the catalog does not is neither deleted nor modified by a pass: the save
\* of a chain pass (407) and the save of an asset pass (512) leave it as it
\* was, checkpoint included.
C9_StaleRowUntouched ==
    [][/\ \A k \in DOMAIN chainStat \ chains :
            ChainSaveStep => (k \in DOMAIN chainStat' /\ chainStat'[k] = chainStat[k])
       /\ \A n \in DOMAIN assetStat \ AssetNames :
            AssetSaveStep => (n \in DOMAIN assetStat' /\ assetStat'[n] = assetStat[n])]_vars

\* The half of C9 about deletion alone: no step removes a row of
\* chain_statistics or of asset_statistics, in the catalog or not.
StaleRowsNeverDeleted ==
    [][/\ DOMAIN chainStat \subseteq DOMAIN chainStat'
       /\ DOMAIN assetStat \subseteq DOMAIN assetStat']_vars

\* C10: shutdown terminates. Once Stop has cancelled the context, every task
\* Start launched has in the end left its run loop and Stop has returned.
C10_ShutdownTerminates ==
    cancelled ~> (/\ stopPc = "returned"
                  /\ \A t \in Tasks : taskPc[t] = "exited")

\* The half of C10 about Stop alone: it returns.
StopEventuallyReturns == cancelled ~> (stopPc = "returned")

\* C11: no pass starts after shutdown. Once the context is cancelled no task
\* goes from the select of its loop into a pass; a pass in flight may go on.
C11_NoPassAfterCancel ==
    [][cancelled => \A t \in Tasks : taskPc'[t] = "pass" => taskPc[t] = "pass"]_vars

\* C12: Stop waits for every task. Whenever Stop has returned, every task
\* Start launched has exited.
C12_StopWaitsForAll ==
    stopPc = "returned" => \A t \in Tasks : taskPc[t] = "exited"

\* C36: one pass in flight per category. For each task of Start at most one
\* call of its pass function is executing at any time: the task is inside its
\* pass exactly when it has one call in flight, and a tick is taken only at
\* the select of the loop, after the call before has returned.
C36_OnePassInFlight ==
    \A t \in Tasks : /\ inflight[t] <= 1
                     /\ inflight[t] = 1 <=> taskPc[t] = "pass"

\* Every task is inside a pass at the same time, after Stop has cancelled the
\* context.
C36_Witness ==
    /\ cancelled
    /\ \A t \in Tasks : taskPc[t] = "pass" /\ inflight[t] = 1

(* ------------------------------------------------------------------ *)
(* computeChainStatistics and computeChainStatisticAssets as two       *)
(* goroutines                                                         *)
(* ------------------------------------------------------------------ *)

\* The goroutines of lines 94 and 95 and the ledgers and the catalog they read.
SpecOwn == InitRun /\ [][NextOwn]_vars

\* The columns of the chain row the chain-statistic pass accumulates.
ChainColumns(row) == <<row.In, row.Out, row.LastInCheckId, row.LastOutCheckId>>

\* The step in which computeChainStatisticAssets calls the save of the store.
AddrSaveStep == addrTask.pc = "441" /\ addrTask'.pc = "idle"

\* C13: exclusive row ownership. No row is saved by two tasks: every stored row
\* was saved by the chain-statistic pass, so a save of the chain-address pass
\* that succeeds holds no row; a save of the chain-address pass never replaces what the chain-statistic pass has stored
\* (counts, checkpoints) by a value read before, and a save of the
\* chain-statistic pass never replaces the stored address count.
C13_ExclusiveOwnership ==
    [][/\ (AddrSaveStep /\ faults' = faults) => DOMAIN addrTask.rows = {}
       /\ AddrSaveStep =>
            \A k \in DOMAIN chainStat : ChainColumns(chainStat'[k]) = ChainColumns(chainStat[k])
       /\ ChainSaveStep =>
            \A k \in DOMAIN chainStat : chainStat'[k].Addresses = chainStat[k].Addresses]_vars

\* The second half of C13 alone: no save overwrites the other task's update.
NoLostUpdate ==
    [][/\ AddrSaveStep =>
            \A k \in DOMAIN chainStat : ChainColumns(chainStat'[k]) = ChainColumns(chainStat[k])
       /\ ChainSaveStep =>
            \A k \in DOMAIN chainStat : chainStat'[k].Addresses = chainStat[k].Addresses]_vars

\* C35: the address-count pass changes only address counts, under any
\* interleaving. The save of computeChainStatisticAssets leaves In, Out,
\* LastInCheckId and LastOutCheckId of every stored chain row as the
\* chain-statistic pass has written them; it never writes back a value it read
\* before that pass's update.
C35_AddressPassOnlyAddresses ==
    [][AddrSaveStep =>
          \A k \in DOMAIN chainStat :
             /\ chainStat'[k].In = chainStat[k].In
             /\ chainStat'[k].Out = chainStat[k].Out
             /\ chainStat'[k].LastInCheckId = chainStat[k].LastInCheckId
             /\ chainStat'[k].LastOutCheckId = chainStat[k].LastOutCheckId]_vars

\* C35 when the chain-statistic pass has not saved between the load and the
\* save of the address pass.
AddressPassAloneOnlyAddresses ==
    [][(/\ AddrSaveStep
        /\ \A k \in DOMAIN addrTask.rows :
              k \in DOMAIN chainStat
                 /\ ChainColumns(addrTask.rows[k]) = ChainColumns(chainStat[k])) =>
          \A k \in DOMAIN chainStat :
             ChainColumns(chainStat'[k]) = ChainColumns(chainStat[k])]_vars

(* ------------------------------------------------------------------ *)
(* The fetches with retry, on every sequence of answers                *)
(* ------------------------------------------------------------------ *)

InitRetry ==
    /\ InitStore
    /\ category = "chain"
    /\ funIn \in [kind : {"balance", "supply"}, answers : [1..MaxAnswers -> Answers]]
    /\ funOut = NoFetch

NextRetry == getAndRetry_773 \/ getAndRetry_776

SpecRetry == InitRetry /\ [][NextRetry]_vars

\* The calls the function may make.
AttemptsOf(kind) == IF kind = "balance" THEN 5 ELSE 3

\* C16: bounded retry. getAndRetryBalance makes at most 5 calls and
\* getAndRetryTotalSupply at most 3; each stops at the first call that succeeds
\* and returns its value with no error; it returns an error only if every call
\* it may make has failed.
C16_BoundedRetry ==
    funOut.calls > 0 =>
        LET a == funIn.answers
            n == AttemptsOf(funIn.kind)
            good == {i \in 1..n : a[i].ok}
        IN  /\ funOut.calls <= n
            /\ \A i \in 1..(funOut.calls - 1) : ~a[i].ok
            /\ funOut.err <=> good = {}
            /\ ~funOut.err =>
                  /\ a[funOut.calls].ok
                  /\ funOut.value = a[funOut.calls].value

\* A balance fetch has succeeded at its last retry, and the answer to a sixth
\* call, never made, differs from the value returned.
C16_Witness ==
    /\ funIn.kind = "balance"
    /\ funOut.calls = 5 /\ ~funOut.err
    /\ funIn.answers[6].ok
    /\ funIn.answers[6].value # funOut.value

(* ------------------------------------------------------------------ *)
(* specialBasic on every argument                                     *)
(* ------------------------------------------------------------------ *)

InitSpecial ==
    /\ InitStore
    /\ category = "chain"
    /\ funIn \in [kind : {"special"},
                  token : [TokenBasicName : SpecialNames, ChainId : SpecialChains,
                           Precision : Precisions],
                  totalSupply : ChainFigures]
    /\ funOut = NoResult

NextSpecial == Special

SpecSpecial == InitSpecial /\ [][NextSpecial]_vars

\* The (asset name, chain id) pairs the override table lists.
OverridePairs ==
    {<<"YNI", ETHEREUM_CROSSCHAIN_ID>>, <<"YNI", HECO_CROSSCHAIN_ID>>,
     <<"DAO", ETHEREUM_CROSSCHAIN_ID>>, <<"DAO", HECO_CROSSCHAIN_ID>>,
     <<"COPR", BSC_CROSSCHAIN_ID>>, <<"COPR", HECO_CROSSCHAIN_ID>>,
     <<"DigiCol ERC-721", ETHEREUM_CROSSCHAIN_ID>>,
     <<"DigiCol ERC-721", HECO_CROSSCHAIN_ID>>,
     <<"DMOD", ETHEREUM_CROSSCHAIN_ID>>, <<"DMOD", BSC_CROSSCHAIN_ID>>,
     <<"SIL", ETHEREUM_CROSSCHAIN_ID>>, <<"SIL", BSC_CROSSCHAIN_ID>>,
     <<"DOGK", BSC_CROSSCHAIN_ID>>, <<"DOGK", HECO_CROSSCHAIN_ID>>,
     <<"SXC", OK_CROSSCHAIN_ID>>, <<"SXC", MATIC_CROSSCHAIN_ID>>,
     <<"OOE", MATIC_CROSSCHAIN_ID>>}

\* C18: manual override lookup. For a pair of the override table specialBasic
\* returns one value whatever supply was fetched (for ("DAO", ETHEREUM) with
\* precision 18: 1000 * 10^18); for every other pair it returns the fetched
\* supply.
C18_OverrideLookup ==
    (funIn.kind = "special" /\ funOut.done) =>
        LET t == funIn.token
        IN  /\ <<t.TokenBasicName, t.ChainId>> \in OverridePairs =>
                 \A f \in ChainFigures : specialBasic(t, f) = funOut.supply
            /\ <<t.TokenBasicName, t.ChainId>> \notin OverridePairs =>
                 funOut.supply = funIn.totalSupply
            /\ (t.TokenBasicName = "DAO" /\ t.ChainId = ETHEREUM_CROSSCHAIN_ID
                  /\ t.Precision = 18) =>
                 funOut.supply =
                    BigFromString(<<1,0,0,0, 0,0,0,0,0,0, 0,0,0,0,0,0, 0,0,0,0,0,0>>)

\* specialBasic has returned 1000 * 10^18 for ("DAO", ETHEREUM) on a fetched
\* supply that is another number.
C18_Witness ==
    /\ funIn.kind = "special" /\ funOut.done
    /\ funIn.token = [TokenBasicName |-> "DAO", ChainId |-> ETHEREUM_CROSSCHAIN_ID,
                      Precision |-> 18]
    /\ funIn.totalSupply = BigNat(SmallAmount)
    /\ Len(funOut.supply.mag) = 22

(* ------------------------------------------------------------------ *)
(* The reconciliation pass on every catalog and every answer           *)
(* ------------------------------------------------------------------ *)

\* The answers drawn for the i-th basic of the catalog.
AlarmInputsOf(i) ==
    LET hashes == {PropertyBasics[i].Tokens[j].Hash :
                     j \in {k \in 1..Len(PropertyBasics[i].Tokens) :
                              Checked(PropertyBasics[i].Tokens[k])}}
        lookups == IF PropertyBasics[i].Name \in {"WBTC", "USDT"} THEN O3Answers
                   ELSE {[http |-> "status", Balance |-> BigZero]}
        answers == UNION {FetchAnswers(h) : h \in hashes}
    IN  [basic : {i},
         fetches : {f \in [hashes -> answers] : \A h \in hashes : f[h] \in FetchAnswers(h)},
         o3 : lookups]

\* The basics GetPropertytokenBasic returns: any of the catalog, in its order.
AlarmInputs ==
    LET pick(i) == {<<>>} \cup {<<x>> : x \in AlarmInputsOf(i)}
    IN  {a \o b \o c : a \in pick(1), b \in pick(2), c \in pick(3)}

InitAlarm ==
    /\ InitStore
    /\ category = "chain"
    /\ funIn \in [kind : {"alarm"}, basics : AlarmInputs]
    /\ funOut = NoResult

NextAlarm ==
    \/ startCheckAssetAlarm_575
    \/ startCheckAssetAlarm_579
    \/ startCheckAssetAlarm_583
    \/ startCheckAssetAlarm_593
    \/ startCheckAssetAlarm_776
    \/ startCheckAssetAlarm_600
    \/ startCheckAssetAlarm_601
    \/ startCheckAssetAlarm_790
    \/ startCheckAssetAlarm_624
    \/ startCheckAssetAlarm_635

SpecAlarm == InitAlarm /\ [][NextAlarm]_vars

\* The basics the alert is checked on, any of them, in the catalog's order.
DingInputs ==
    LET pick(i) == {<<>>} \cup {<<x>> : x \in AlarmInputsOf(i)}
    IN  {a \o b \o c : a \in pick(4), b \in pick(5), c \in pick(6)}

InitDing ==
    /\ InitStore
    /\ category = "chain"
    /\ funIn \in [kind : {"alarm"}, basics : DingInputs]
    /\ funOut = NoResult

SpecDing == InitDing /\ [][NextAlarm]_vars
\* C14: pass errors never crash the process. Whatever a collaborator of the
\* reconciliation pass answers (failed fetches, a failed external lookup), the
\* pass ends and the process keeps running.
C14_PassErrorsNeverCrash == funOut # NoResult => ~funOut.panic /\ ~crashed
\* The asset details a finished pass has produced.
Details ==
    LET all == funOut.resAssetDetails \o funOut.extraAssetDetails
    IN  {all[i] : i \in 1..Len(all)}

Entries(detail) == {detail.TokenAsset[i] : i \in 1..Len(detail.TokenAsset)}

\* The pass has ended, by a return or by a panic, after it had read the basics.
AlarmDone == funIn.kind = "alarm" /\ funOut # NoResult /\ ~funOut.err

\* The basic drawn at position i had a fetch that failed on every attempt.
FetchFails(i) ==
    \E h \in DOMAIN funIn.basics[i].fetches :
        ~funIn.basics[i].fetches[h].balance.ok \/ ~funIn.basics[i].fetches[h].supply.ok

\* The detail of the basic at position i records a reason and has an entry for
\* every token of the basic the pass checks, with 0 for each failed figure.
Degraded(i) ==
    LET inp == funIn.basics[i]
        basic == PropertyBasics[inp.basic]
    IN  \E d \in Details :
          /\ d.BasicName = basic.Name
          /\ d.Reason # NoReason
          /\ \A j \in 1..Len(basic.Tokens) :
               Checked(basic.Tokens[j]) =>
                 \E e \in Entries(d) :
                   /\ e.Hash = basic.Tokens[j].Hash
                   /\ ~inp.fetches[e.Hash].balance.ok => e.Balance = BigZero
                   /\ ~inp.fetches[e.Hash].supply.ok =>
                        e.TotalSupply \in {BigZero, specialBasic(basic.Tokens[j], BigZero)}

\* Every basic of the pass has its detail.
AllProcessed ==
    \A j \in 1..Len(funIn.basics) :
        \E d \in Details : d.BasicName = PropertyBasics[funIn.basics[j].basic].Name

\* C17: a fetch failure degrades, never aborts. When a fetch of a token fails on
\* every attempt, the figure is 0, the detail records a reason, and every
\* remaining token and every remaining basic is processed.
C17_FetchFailureDegrades ==
    AlarmDone => \A i \in 1..Len(funIn.basics) :
                    FetchFails(i) => Degraded(i) /\ AllProcessed

\* The same for the passes in which no external lookup panics.
FetchFailureDegradesUnlessPanic ==
    (AlarmDone /\ ~funOut.panic) =>
        \A i \in 1..Len(funIn.basics) : FetchFails(i) => Degraded(i) /\ AllProcessed

\* The token of the catalog an entry of a detail was made for.
TokenOf(basic, hash) ==
    CHOOSE t \in {basic.Tokens[j] : j \in 1..Len(basic.Tokens)} : t.Hash = hash

\* The supply the pass fetched for the token at position i, 0 after a failure.
FetchedSupply(i, hash) ==
    LET answer == funIn.basics[i].fetches[hash].supply
    IN  IF answer.ok THEN answer.value ELSE BigZero

HomeChain(basic, token) ==
    ~inExtraBasic(token.TokenBasicName) /\ basic.ChainId = token.ChainId

\* C19: home-chain supply is forced to zero. In every detail, the entry of a
\* token of an asset outside the exclusion list on the home chain of its basic
\* has TotalSupply 0 and Flow -Balance, whatever was fetched and whatever the
\* override table holds; the entry of every other token has the result of the
\* override table as its TotalSupply.
C19_HomeSupplyZero ==
    AlarmDone =>
      \A i \in 1..Len(funIn.basics) :
        LET basic == PropertyBasics[funIn.basics[i].basic]
        IN  \A d \in Details : d.BasicName = basic.Name =>
              \A e \in Entries(d) : e.Hash # "" =>
                LET token == TokenOf(basic, e.Hash)
                IN  IF HomeChain(basic, token)
                    THEN e.TotalSupply = BigZero /\ e.Flow = BigNeg(e.Balance)
                    ELSE e.TotalSupply = specialBasic(token, FetchedSupply(i, e.Hash))

\* A detail holds the entry of a home-chain token with a balance, a fetched
\* supply and an override-table entry, next to an entry the override replaced.
C19_Witness ==
    /\ AlarmDone
    /\ \E i \in 1..Len(funIn.basics) :
         LET basic == PropertyBasics[funIn.basics[i].basic]
         IN  \E d \in Details :
               /\ d.BasicName = basic.Name
               /\ \E e \in Entries(d) :
                    /\ e.Hash # ""
                    /\ HomeChain(basic, TokenOf(basic, e.Hash))
                    /\ BigSign(e.Balance) = 1
                    /\ BigSign(FetchedSupply(i, e.Hash)) = 1
                    /\ specialBasic(TokenOf(basic, e.Hash), FetchedSupply(i, e.Hash))
                         # FetchedSupply(i, e.Hash)
                    /\ e.TotalSupply = BigZero
               /\ \E e \in Entries(d) :
                    /\ e.Hash # ""
                    /\ ~HomeChain(basic, TokenOf(basic, e.Hash))
                    /\ e.TotalSupply # FetchedSupply(i, e.Hash)

\* C20: flow arithmetic. In every detail of a pass, every chain entry, the
\* externally-sourced one included, has Flow = TotalSupply - Balance, and the
\* Difference of the detail is the sum of the Flow of its entries.
C20_FlowArithmetic ==
    AlarmDone =>
      \A d \in Details :
        /\ \A e \in Entries(d) : e.Flow = BigSub(e.TotalSupply, e.Balance)
        /\ d.Difference = SumFlow(d.TokenAsset, 1)

\* The first half of C20 for the entries made from the tokens of the basic.
TokenFlowArithmetic ==
    AlarmDone =>
      \A d \in Details :
        \A e \in Entries(d) : e.Hash # "" => e.Flow = BigSub(e.TotalSupply, e.Balance)

\* The second half of C20 alone.
DifferenceIsSumOfFlow ==
    AlarmDone => \A d \in Details : d.Difference = SumFlow(d.TokenAsset, 1)

\* The asset is outside the exclusion list and its Difference is positive and
\* worth more than the threshold: Difference / 10^Precision * Price / 10^8 > 10000.
Material(d) ==
    /\ ~inExtraBasic(d.BasicName)
    /\ BigSign(d.Difference) = 1
    /\ BigCmp(BigMul(d.Difference, d.Price),
              BigMulPow10(BigNat(AlertThreshold), d.Precision + 8)) = 1

AlertAssets == {funOut.alert.assets[i] : i \in 1..Len(funOut.alert.assets)}

\* C21: alert condition. A pass delivers one message if and only if an asset
\* outside the exclusion list has a positive Difference worth more than 10,000
\* dollars, and the message holds every such asset.
C21_AlertCondition ==
    AlarmDone =>
      LET material == {d.BasicName : d \in {x \in Details : Material(x)}}
      IN  /\ funOut.alert.sent <=> material # {}
          /\ funOut.alert.sent => AlertAssets = material

\* The half of C21 the pass keeps: an asset in the message is material, and
\* nothing is sent for an empty message.
AlertedAreMaterial ==
    AlarmDone =>
      /\ AlertAssets \subseteq {d.BasicName : d \in {x \in Details : Material(x)}}
      /\ funOut.alert.sent <=> AlertAssets # {}

Balanced(d) == \A e \in Entries(d) : e.TotalSupply = e.Balance

\* C22: a balanced asset raises no alert. If every chain entry of an asset has
\* TotalSupply equal to Balance, its Difference is 0, no dollar amount is
\* computed for it and no message names it.
C22_BalancedNoAlert ==
    AlarmDone =>
      \A d \in Details :
        Balanced(d) => /\ d.Difference = BigZero
                       /\ d.Amount_usd = <<>>
                       /\ d.BasicName \notin AlertAssets

\* The same for the details without an externally-sourced entry.
BalancedTokensNoAlert ==
    AlarmDone =>
      \A d \in Details :
        (Balanced(d) /\ \A e \in Entries(d) : e.Hash # "")
          => /\ d.Difference = BigZero
             /\ d.Amount_usd = <<>>
             /\ d.BasicName \notin AlertAssets

NamesOf(details) == {details[i].BasicName : i \in 1..Len(details)}

\* C23: exclusion list routing. An asset of the exclusion list is placed only
\* in the unreliable bucket and never in a message, whatever its Difference;
\* every other asset is placed only in the list handed to alert delivery.
C23_ExclusionRouting ==
    AlarmDone =>
      /\ \A n \in NamesOf(funOut.extraAssetDetails) : inExtraBasic(n)
      /\ \A n \in NamesOf(funOut.resAssetDetails) : ~inExtraBasic(n)
      /\ AlertAssets \subseteq NamesOf(funOut.resAssetDetails)
      /\ \A n \in AlertAssets : ~inExtraBasic(n)
      /\ ~funOut.panic =>
           \A i \in 1..Len(funIn.basics) :
             LET n == PropertyBasics[funIn.basics[i].basic].Name
             IN  IF inExtraBasic(n) THEN n \in NamesOf(funOut.extraAssetDetails)
                 ELSE n \in NamesOf(funOut.resAssetDetails)

\* A pass with an asset of the exclusion list whose Difference is worth more
\* than the threshold, kept out of the message another asset is written into.
C23_Witness ==
    /\ AlarmDone
    /\ funOut.alert.sent
    /\ \E d \in Details :
         /\ inExtraBasic(d.BasicName)
         /\ BigCmp(BigMul(d.Difference, d.Price),
                   BigMulPow10(BigNat(AlertThreshold), d.Precision + 8)) = 1
         /\ d.BasicName \in NamesOf(funOut.extraAssetDetails)
         /\ d.BasicName \notin AlertAssets

(* ------------------------------------------------------------------ *)
(* The body of the token-statistic loop on every row and every answer  *)
(* ------------------------------------------------------------------ *)

\* The transfers of the row's token in a stream: up to MaxRecords of one amount.
StreamsOf(amount) == {[i \in 1..n |-> amount] : n \in 0..MaxRecords}

\* The price GetBTCPrice returns.
BtcPrice == Dollars(20000)

\* The price the stored valuations of the row were computed at.
StoredPrice == Dollars(1)

\* The rows GetTokenStatistics returns, for a token of precision 3 whose basic
\* has its home on chain 2: on the home chain and on another chain, with
\* checkpoints up to the ends of the two streams.
TokenRows(dst, src) ==
    {[ChainId |-> c, Hash |-> "usdt",
      InAmount |-> a, InAmountUsd |-> AmountUsdField(a, StoredPrice),
      InAmountBtc |-> AmountBtcField(a, StoredPrice, BtcPrice),
      OutAmount |-> BigNat(300),
      OutAmountUsd |-> AmountUsdField(BigNat(300), StoredPrice),
      OutAmountBtc |-> AmountBtcField(BigNat(300), StoredPrice, BtcPrice),
      InCounter |-> i, OutCounter |-> o, LastInCheckId |-> i, LastOutCheckId |-> o] :
       c \in {ETHEREUM_CROSSCHAIN_ID, BSC_CROSSCHAIN_ID},
       a \in {BigZero, BigNat(700)}, i \in 0..Len(dst), o \in 0..Len(src)}

TokenCalls ==
    [dst : StreamsOf(BigNat(5000)), src : StreamsOf(BigNat(1255)),
     balance : {FetchFailed, Fetched(BigNat(9999))},
     inErr : BOOLEAN, outErr : BOOLEAN, saveErr : BOOLEAN, btcPrice : {BtcPrice}]

RowTokens ==
    [Precision : {3},
     TokenBasic : [ChainId : {ETHEREUM_CROSSCHAIN_ID},
                   Price : {StoredPrice, Dollars(2)}]]

\* token_statistics holds the row GetTokenStatistics returned to the pass.
InitRow ==
    /\ InitChainTables
    /\ InitAssetTables
    /\ InitTokenLedger
    /\ InitIdle
    /\ faults = MaxFaults
    /\ category = "token"
    /\ \E call \in TokenCalls :
         funIn \in [kind : {"row"}, lookup : {"found", "missing", "partial"},
                    statistic : TokenRows(call.dst, call.src),
                    token : RowTokens, call : {call}]
    /\ tokenStat = [k \in {RowKey(funIn.statistic)} |-> funIn.statistic]
    /\ funOut = NoResult

NextRow ==
    \/ TokenRow_250
    \/ TokenRow_259
    \/ TokenRow_776
    \/ TokenRow_267
    \/ TokenRow_282
    \/ TokenRow_302

SpecRow == InitRow /\ [][NextRow]_vars

RowFolded == funIn.kind = "row" /\ funOut # NoResult /\ funOut.saved

\* C25: the outbound delta uses the outbound cursor. The outbound amount and
\* count of a folded row grow by the source transfers with Id in
\* (LastOutCheckId, highest source-transfer Id], the inbound ones by the
\* destination transfers with Id in (LastInCheckId, highest destination-transfer Id].
C25_OutboundUsesOutCursor ==
    RowFolded =>
      LET old == funIn.statistic
          call == funIn.call
          home == funIn.token.TokenBasic.ChainId = old.ChainId
          in == CalculateTokenStatistics(call.dst, old.LastInCheckId, Len(call.dst),
                                         call.inErr)
          out == CalculateTokenStatistics(call.src, old.LastOutCheckId, Len(call.src),
                                          call.outErr)
      IN  /\ funOut.row.OutCounter = old.OutCounter + out.Counter
          /\ ~home => funOut.row.OutAmount =
                        BigAdd(old.OutAmount,
                               ScaledAmount(out.Amount, funIn.token.Precision))
          /\ ~home => /\ funOut.row.InCounter = old.InCounter + in.Counter
                      /\ funOut.row.InAmount =
                           BigAdd(old.InAmount,
                                  ScaledAmount(in.Amount, funIn.token.Precision))

\* The inbound half of C25 alone.
InboundUsesInCursor ==
    RowFolded =>
      LET old == funIn.statistic
          in == CalculateTokenStatistics(funIn.call.dst, old.LastInCheckId,
                                         Len(funIn.call.dst), funIn.call.inErr)
      IN  funIn.token.TokenBasic.ChainId # old.ChainId =>
            /\ funOut.row.InCounter = old.InCounter + in.Counter
            /\ funOut.row.InAmount =
                 BigAdd(old.InAmount, ScaledAmount(in.Amount, funIn.token.Precision))

\* What getAndRetryBalance returns for the row: the answer of the node, after
\* the retries when it fails.
RowBalance == [err |-> ~funIn.call.balance.ok, value |-> funIn.call.balance.value]

RowIsHome == funIn.token.TokenBasic.ChainId = funIn.statistic.ChainId

\* C28: the home-chain inbound amount is a live balance. A folded row on the
\* home chain of its basic has InAmount set to the scaled balance, or kept when
\* the balance read fails, and OutAmount set to 0; a folded row on another
\* chain has InAmount increased by the scaled ledger delta.
C28_HomeInboundIsBalance ==
    RowFolded =>
      LET old == funIn.statistic
          in == CalculateTokenStatistics(funIn.call.dst, old.LastInCheckId,
                                         Len(funIn.call.dst), funIn.call.inErr)
      IN  IF RowIsHome
          THEN /\ funOut.row.InAmount =
                    (IF RowBalance.err THEN old.InAmount
                     ELSE ScaledAmount(RowBalance.value, funIn.token.Precision))
               /\ funOut.row.OutAmount = BigZero
          ELSE funOut.row.InAmount =
                 BigAdd(old.InAmount, ScaledAmount(in.Amount, funIn.token.Precision))

\* The inbound half of C28 alone.
HomeInAmountIsBalance ==
    RowFolded /\ RowIsHome =>
      funOut.row.InAmount =
        (IF RowBalance.err THEN funIn.statistic.InAmount
         ELSE ScaledAmount(RowBalance.value, funIn.token.Precision))

(* ------------------------------------------------------------------ *)
(* The valuations of token rows and of asset rows                      *)
(* ------------------------------------------------------------------ *)

\* The passes over the row of one basic: up to MaxRecords of them, each with
\* the price at its time and at most one new amount.
AssetPassInputs ==
    [price : {StoredPrice, Dollars(2)},
     amounts : {<<>>, <<BigNat(5000)>>, <<BigNat(1255)>>},
     qErr : BOOLEAN, sErr : BOOLEAN]

InitAsset ==
    /\ InitStore
    /\ category = "asset"
    /\ \E n \in 1..MaxRecords :
         funIn \in [kind : {"asset"}, passes : [1..n -> AssetPassInputs],
                    btcPrice : {BtcPrice}]
    /\ funOut = NoResult

InitValue == InitRow \/ InitAsset

NextValue == NextRow \/ AssetFold_493 \/ AssetFold_512

SpecValue == InitValue /\ [][NextValue]_vars

\* The last pass saved the row.
AssetFolded == funIn.kind = "asset" /\ funOut # NoResult /\ funOut.saved

\* C29: the valuations are a function of the cumulative amount. After a pass
\* every USD and BTC field of a saved token row and of a saved asset row is
\* the current price (and BTC price) applied to the cumulative amount of the row.
C29_ValuationsFollowAmount ==
    /\ RowFolded =>
         LET price == funIn.token.TokenBasic.Price
             btc == funIn.call.btcPrice
             row == funOut.row
         IN  /\ row.InAmountUsd = AmountUsdField(row.InAmount, price)
             /\ row.InAmountBtc = AmountBtcField(row.InAmount, price, btc)
             /\ row.OutAmountUsd = AmountUsdField(row.OutAmount, price)
             /\ row.OutAmountBtc = AmountBtcField(row.OutAmount, price, btc)
    /\ AssetFolded =>
         LET price == funIn.passes[funOut.n].price
             row == funOut.row
         IN  /\ row.AmountUsd = AmountUsdField(row.Amount, price)
             /\ row.AmountBtc = AmountBtcField(row.Amount, price, funIn.btcPrice)

\* The inbound valuations of a token row alone.
InboundValuationsFollowAmount ==
    RowFolded =>
      /\ funOut.row.InAmountUsd =
           AmountUsdField(funOut.row.InAmount, funIn.token.TokenBasic.Price)
      /\ funOut.row.InAmountBtc =
           AmountBtcField(funOut.row.InAmount, funIn.token.TokenBasic.Price,
                          funIn.call.btcPrice)

\* The dollar field of the asset row after passes that all saw one price and
\* whole 1/100 units.
AssetUsdFollowsAmountAtOnePrice ==
    AssetFolded /\ (\A i \in 1..Len(funIn.passes) :
                      /\ funIn.passes[i].price = funIn.passes[1].price
                      /\ funIn.passes[i].amounts # <<BigNat(1255)>>) =>
      funOut.row.AmountUsd = AmountUsdField(funOut.row.Amount, funIn.passes[1].price)

\* The asset row after two passes of one amount each, the price doubled in between.
AssetPriceChanged ==
    /\ AssetFolded /\ funOut.n = 2
    /\ funIn.passes[1] = [price |-> StoredPrice, amounts |-> <<BigNat(5000)>>,
                          qErr |-> FALSE, sErr |-> FALSE]
    /\ funIn.passes[2] = [price |-> Dollars(2), amounts |-> <<BigNat(5000)>>,
                          qErr |-> FALSE, sErr |-> FALSE]

AssetUsdIsRunningSum ==
    AssetPriceChanged => funOut.row.AmountUsd = BigNat(150000)

(* ------------------------------------------------------------------ *)
(* Passes over rows that have nothing new                              *)
(* ------------------------------------------------------------------ *)

\* The basic has a last source transfer and its checkpoint has reached its Id.
BasicUpToDate(n) ==
    LET last == GetLastSrcTransferForToken(n)
    IN  last # 0 /\ tokenBasic[n].StatsUpdateTime >= last

\* The stored asset row's checkpoint has reached the highest source-transfer Id.
AssetUpToDate(n) ==
    n \in DOMAIN assetStat /\ assetStat[n].LastCheckId >= HighestSrcTransferId

\* C30: skip when nothing is new. A pass makes no aggregate query and no store
\* write for a row whose checkpoint has reached the highest Id of its stream:
\* an asset pass calls neither CalculateAssets nor SaveAssetStatistic for such
\* a row, and computeTokenBasicStats returns without the aggregate query and
\* without writing when the basic's checkpoint has reached the Id of its last
\* source transfer.
C30_SkipWhenNothingNew ==
    [][/\ (assetTask.pc = "493" /\ assetTask'.pc = "512") =>
            ~(/\ assetTask'.cur \in assetTask.stored
              /\ assetTask.list[assetTask'.cur].LastCheckId >= assetTask.nowId)
       /\ BasicQueryStep =>
            basicTask.list[basicTask'.cur].StatsUpdateTime < basicTask'.last
       /\ BasicSaveStep => ~BasicUpToDate(basicTask.cur)]_vars

\* The basic half of C30 alone.
BasicSkipsWhenNothingNew ==
    [][BasicQueryStep =>
          basicTask.list[basicTask'.cur].StatsUpdateTime < basicTask'.last]_vars

\* What the basic pass does skip: a basic whose checkpoint equals the Time of
\* its last source transfer.
BasicSkipsOnEqualTime ==
    [][BasicQueryStep =>
          basicTask.list[basicTask'.cur].StatsUpdateTime
             # srcTransfer[basicTask'.last].time]_vars

(* ------------------------------------------------------------------ *)
(* The relay chain's row on every stored row and every mark            *)
(* ------------------------------------------------------------------ *)

\* Ids of the source and destination streams, and of the relay stream.
StreamMarks == {98, 102}

RelayMarks == {100, 102}

\* A source or destination ledger: records of chain 2 up to a mark, the
\* records 99 to 101 keyed by the relay chain's id or by chain 2.
RelayStreams ==
    {[i \in 1..n |-> IF i \in tail THEN POLY_CROSSCHAIN_ID ELSE ETHEREUM_CROSSCHAIN_ID] :
       n \in StreamMarks, tail \in {{}, {99, 100, 101}}}

\* The stored row of chain 2, the row GetNewChainSta returns: its cursors at a
\* mark of each ledger, its totals the records of chain 2 up to them.
RelayRefRows ==
    {[In |-> CountKey(dstTxn, ETHEREUM_CROSSCHAIN_ID, 0, i),
      Out |-> CountKey(srcTxn, ETHEREUM_CROSSCHAIN_ID, 0, o), Addresses |-> 0,
      LastInCheckId |-> i, LastOutCheckId |-> o] :
       i \in {m \in StreamMarks : m <= Len(dstTxn)},
       o \in {m \in StreamMarks : m <= Len(srcTxn)}}

\* The stored relay rows, as passes leave them: made while the ledgers were
\* empty; made at the marks 98 of the two ledgers and saved as made, the
\* relay counter query having failed; folded up to the relay mark 98 or 100.
RelayRows ==
    {[In |-> 0, Out |-> 0, Addresses |-> 0, LastInCheckId |-> 0, LastOutCheckId |-> 0],
     [In |-> 0, Out |-> 0, Addresses |-> 0, LastInCheckId |-> 98, LastOutCheckId |-> 98],
     [In |-> 7, Out |-> 7, Addresses |-> 0, LastInCheckId |-> 98, LastOutCheckId |-> 98],
     [In |-> 7, Out |-> 7, Addresses |-> 0, LastInCheckId |-> 100, LastOutCheckId |-> 100]}

\* chain_statistics holds the row of chain 2 and, when stored, a relay row.
RelayTables ==
    {[k \in {ETHEREUM_CROSSCHAIN_ID} |-> ref] : ref \in RelayRefRows}
      \cup {[k \in {POLY_CROSSCHAIN_ID, ETHEREUM_CROSSCHAIN_ID} |->
               IF k = POLY_CROSSCHAIN_ID THEN relay ELSE ref] :
              ref \in RelayRefRows, relay \in RelayRows}

\* The ledgers stand at their marks and do not grow; the catalog holds chain 2
\* with or without the relay chain.
InitRelay ==
    /\ InitAssetTables
    /\ InitTokenLedger
    /\ tokenStat = <<>>
    /\ InitIdle
    /\ FunIdle
    /\ faults = MaxFaults
    /\ category = "chain"
    /\ chains \in {{ETHEREUM_CROSSCHAIN_ID}, {POLY_CROSSCHAIN_ID, ETHEREUM_CROSSCHAIN_ID}}
    /\ dstTxn \in RelayStreams
    /\ srcTxn \in RelayStreams
    /\ polyTxn \in RelayMarks
    /\ chainStat \in RelayTables

\* The passes of computeChainStatistics, call by call, and the passes of
\* computeChainStatisticAssets between their calls.
NextRelay ==
    \/ computeChainStatistics_312
    \/ computeChainStatistics_316
    \/ computeChainStatistics_321
    \/ computeChainStatistics_328
    \/ computeChainStatistics_335
    \/ computeChainStatistics_340
    \/ computeChainStatistics_348
    \/ computeChainStatistics_353
    \/ computeChainStatistics_396
    \/ computeChainStatistics_407
    \/ computeChainStatisticAssets_417
    \/ computeChainStatisticAssets_422
    \/ computeChainStatisticAssets_441

SpecRelay == InitRelay /\ [][NextRelay]_vars

\* The step of line 396 whose relay counter query is answered.
RelayCountStep ==
    chainTask.pc = "396" /\ chainTask'.pc = "407" /\ "poly" \notin chainTask'.qfail

\* The relay row the pass starts from, its checkpoint an Id of the relay
\* stream: the row GetChainStatistic returned, or a row with nothing counted.
RelayPrev ==
    IF POLY_CROSSCHAIN_ID \in DOMAIN chainTask.rows THEN chainTask.rows[POLY_CROSSCHAIN_ID]
    ELSE ZeroChainRow

\* C26: the relay chain's row. A pass whose relay counter query succeeds adds
\* to In and to Out of the relay row the count of the relay records with Id in
\* (checkpoint of the row, relay high-water mark], sets both checkpoints to the
\* relay mark, adds no source or destination delta, and takes the left bound
\* from the relay stream also for a row it has just created.
C26_RelayRow ==
    [][RelayCountStep =>
         LET counter == CalculatePolyChainStatistic(RelayPrev.LastInCheckId,
                                                    chainTask.polyCheckId)
             row == chainTask'.list[POLY_CROSSCHAIN_ID]
         IN  /\ row.In = RelayPrev.In + counter
             /\ row.Out = RelayPrev.Out + counter
             /\ row.LastInCheckId = chainTask.polyCheckId
             /\ row.LastOutCheckId = chainTask.polyCheckId
             /\ chainTask.list[POLY_CROSSCHAIN_ID].LastInCheckId
                  <= chainTask.polyCheckId]_vars

\* C26 for a relay row that was stored before the pass.
StoredRelayRow ==
    [][(RelayCountStep /\ POLY_CROSSCHAIN_ID \in DOMAIN chainTask.rows) =>
         LET old == chainTask.rows[POLY_CROSSCHAIN_ID]
             counter == CalculatePolyChainStatistic(old.LastInCheckId,
                                                    chainTask.polyCheckId)
             row == chainTask'.list[POLY_CROSSCHAIN_ID]
         IN  /\ row.In = old.In + counter
             /\ row.Out = old.Out + counter
             /\ row.LastInCheckId = chainTask.polyCheckId
             /\ row.LastOutCheckId = chainTask.polyCheckId]_vars

\* The stored relay row has its checkpoint at 100 and the relay mark is 100.
RelayAtMark ==
    /\ POLY_CROSSCHAIN_ID \in DOMAIN chainStat
    /\ chainStat[POLY_CROSSCHAIN_ID].LastInCheckId = 100
    /\ polyTxn = 100

\* C27: the relay checkpoint scenario. With the relay row's LastInCheckId at
\* 100 and the relay stream's highest Id at 100, no step of a chain pass
\* changes the row's LastInCheckId, In or Out, whether or not the source or
\* destination streams have new records.
C27_RelayCheckpointScenario ==
    [][(RelayAtMark /\ chainTask' # chainTask) =>
         /\ POLY_CROSSCHAIN_ID \in DOMAIN chainStat'
         /\ chainStat'[POLY_CROSSCHAIN_ID].LastInCheckId = 100
         /\ chainStat'[POLY_CROSSCHAIN_ID].In = chainStat[POLY_CROSSCHAIN_ID].In
         /\ chainStat'[POLY_CROSSCHAIN_ID].Out = chainStat[POLY_CROSSCHAIN_ID].Out]_vars

\* The scenario after a pass that found new destination and source records,
\* was handed entries for the relay chain's id by both range queries, had
\* every call answered and saved the relay row.
C27_Witness ==
    /\ RelayAtMark
    /\ op.name = "chain" /\ CleanPass(op) /\ POLY_CROSSCHAIN_ID \in op.attempted
    /\ chainStat[ETHEREUM_CROSSCHAIN_ID].LastInCheckId = 102
    /\ chainStat[ETHEREUM_CROSSCHAIN_ID].LastOutCheckId = 102
    /\ CountKey(dstTxn, POLY_CROSSCHAIN_ID, 98, 102) > 0
    /\ CountKey(srcTxn, POLY_CROSSCHAIN_ID, 98, 102) > 0
    /\ chainStat[POLY_CROSSCHAIN_ID].In = 7
    /\ chainStat[POLY_CROSSCHAIN_ID].LastOutCheckId = 100

\* A chain pass returns, every call of it answered.
CleanChainReturn ==
    chainTask.pc # "idle" /\ chainTask'.pc = "idle" /\ CleanPass(op')

\* The relay stream's mark is above the stored relay row's checkpoint.
RelayAhead ==
    /\ POLY_CROSSCHAIN_ID \in DOMAIN chainStat
    /\ polyTxn > chainStat[POLY_CROSSCHAIN_ID].LastInCheckId

\* The pass has folded the relay records above the checkpoint of the row.
RelayCounted ==
    /\ chainStat'[POLY_CROSSCHAIN_ID].LastInCheckId = polyTxn
    /\ chainStat'[POLY_CROSSCHAIN_ID].In =
         chainStat[POLY_CROSSCHAIN_ID].In
           + CalculatePolyChainStatistic(chainStat[POLY_CROSSCHAIN_ID].LastInCheckId,
                                         polyTxn)

\* C34: relay records are counted without waiting for other streams. Whenever
\* the relay stream's highest Id exceeds the relay row's checkpoint, a pass
\* whose calls all succeed folds the new relay records into the relay row and
\* moves its checkpoint to the relay mark, also when neither the source nor
\* the destination stream has gained a record.
C34_RelayCountedAlone ==
    [][(CleanChainReturn /\ RelayAhead) => RelayCounted]_vars

\* C34 for the passes that found a new source or destination record.
RelayCountedWithOthers ==
    [][(CleanChainReturn /\ RelayAhead /\ ChainFoldEntered(chainTask)) =>
         RelayCounted]_vars

(* ------------------------------------------------------------------ *)
(* What a reconciliation pass is to compute from the values it reads   *)
(* ------------------------------------------------------------------ *)

\* The figure a fetch leaves: the answer of the node, 0 when it fails.
FetchedFigure(answer) == IF answer.ok THEN answer.value ELSE BigZero

\* Lines 594-606: assetDetail.Reason after the fetches of one token.
ReasonAfter(reason, token, fetch) ==
    IF ~fetch.supply.ok THEN fetch.supply.text
    ELSE IF ~fetch.balance.ok THEN fetch.balance.text
    ELSE reason

RECURSIVE ReasonOf(_, _, _, _)
ReasonOf(list, fetches, i, reason) ==
    IF i > Len(list) THEN reason
    ELSE ReasonOf(list, fetches, i + 1,
                  ReasonAfter(reason, list[i], fetches[list[i].Hash]))

\* Lines 579-622: the asset detail of one basic before getO3Data.
AssetDetail(basic, fetches) ==
    LET list == CheckedTokens(basic)
        entries == [i \in 1..Len(list) |->
                      ChainAsset(basic, list[i],
                                 FetchedFigure(fetches[list[i].Hash].balance),
                                 FetchedFigure(fetches[list[i].Hash].supply))]
    IN  [BasicName |-> basic.Name, Precision |-> basic.Precision,
         Price |-> basic.Price, Amount_usd |-> <<>>,
         TokenAsset |-> entries, Difference |-> SumFlow(entries, 1),
         Reason |-> ReasonOf(list, fetches, 1, NoReason)]

\* Lines 579-633: the loop over the basics from the i-th on. inputs[i] names a
\* basic of the catalog and holds the answers its fetches and lookup get.
RECURSIVE CheckAssets(_, _, _)
CheckAssets(inputs, i, lists) ==
    IF i > Len(inputs)
    THEN [panic |-> FALSE, resAssetDetails |-> lists.resAssetDetails,
          extraAssetDetails |-> lists.extraAssetDetails]
    ELSE LET basic == PropertyBasics[inputs[i].basic]
             o3 == getO3Data(AssetDetail(basic, inputs[i].fetches), inputs[i].o3)
         IN  IF o3.panic
             THEN [panic |-> TRUE, resAssetDetails |-> lists.resAssetDetails,
                   extraAssetDetails |-> lists.extraAssetDetails]
             ELSE CheckAssets(inputs, i + 1, AppendDetail(lists, o3.detail))

(* ------------------------------------------------------------------ *)
(* The external lookup of getO3Data                                    *)
(* ------------------------------------------------------------------ *)

\* The basic drawn at position i is one getO3Data looks up, and the lookup
\* fails in one of the given ways.
LookupFails(i, ways) ==
    /\ PropertyBasics[funIn.basics[i].basic].Name \in {"WBTC", "USDT"}
    /\ funIn.basics[i].o3.http \in ways

\* The detail of the basic at position i is the one the loop built before the
\* lookup: no synthetic entry, TokenAsset and Difference as they were.
LookupContained(i) ==
    LET before == AssetDetail(PropertyBasics[funIn.basics[i].basic],
                              funIn.basics[i].fetches)
    IN  \E d \in Details :
          /\ d.BasicName = before.BasicName
          /\ d.TokenAsset = before.TokenAsset
          /\ d.Difference = before.Difference
          /\ \A e \in Entries(d) : e.ChainId # O3_CROSSCHAIN_ID

\* C31: an external lookup failure is contained. When the lookup for WBTC or
\* USDT fails, by a transport error or by a status other than 200, the detail
\* gets no synthetic entry and keeps its TokenAsset and Difference, the pass
\* goes on with the remaining assets and reaches the delivery of the alert.
C31_LookupFailureContained ==
    AlarmDone =>
      \A i \in 1..Len(funIn.basics) :
        LookupFails(i, {"err", "status"}) =>
          /\ ~funOut.panic
          /\ LookupContained(i)
          /\ AllProcessed

\* C31 for the lookups answered with a status other than 200.
StatusFailureContained ==
    AlarmDone =>
      \A i \in 1..Len(funIn.basics) :
        (LookupFails(i, {"status"}) /\ ~funOut.panic) =>
          LookupContained(i) /\ AllProcessed

(* ------------------------------------------------------------------ *)
(* The tokens a reconciliation pass looks at                           *)
(* ------------------------------------------------------------------ *)

\* The tokens of a basic that are reserve-relevant: flagged with Property 1,
\* and not a USDT token of another precision than 6.
ReserveRelevant(basic) ==
    {basic.Tokens[j].Hash :
       j \in {k \in 1..Len(basic.Tokens) :
                /\ basic.Tokens[k].Property = 1
                /\ ~(basic.Tokens[k].TokenBasicName = "USDT"
                     /\ basic.Tokens[k].Precision # 6)}}

\* The entries of a detail made for tokens: all but the externally-sourced one.
TokenEntries(d) == {e \in Entries(d) : e.Hash # ""}

\* C32: only reserve-relevant tokens are reconciled. In every detail of a
\* pass there is a chain entry for a token of the basic if and only if the
\* token has Property 1 and is not a USDT token of a precision other than 6;
\* the Difference is the sum of the Flow of the entries, so every other token
\* adds nothing to it.
C32_OnlyReserveRelevant ==
    AlarmDone =>
      \A i \in 1..Len(funIn.basics) :
        LET basic == PropertyBasics[funIn.basics[i].basic]
        IN  \A d \in Details : d.BasicName = basic.Name =>
              /\ {e.Hash : e \in TokenEntries(d)} = ReserveRelevant(basic)
              /\ Cardinality(TokenEntries(d)) = Cardinality(ReserveRelevant(basic))
              /\ d.Difference = SumFlow(d.TokenAsset, 1)

\* A pass has built the details of USDT and of WBTC, each from one token of
\* two resp. three, with figures fetched for it.
C32_Witness ==
    /\ AlarmDone /\ ~funOut.panic
    /\ \E d \in Details : /\ d.BasicName = "USDT"
                          /\ {e.Hash : e \in TokenEntries(d)} = {"usdt-eth"}
                          /\ d.Difference # BigZero
    /\ \E d \in Details : /\ d.BasicName = "WBTC"
                          /\ {e.Hash : e \in TokenEntries(d)} = {"wbtc-eth", "wbtc-bsc"}
                          /\ d.Difference # BigZero

(* ------------------------------------------------------------------ *)
(* Assets with a node outage                                           *)
(* ------------------------------------------------------------------ *)

\* A fetch of a token of the basic at position i failed with the reason
\* "all node is not working".
NodeOutage(i) ==
    \E h \in DOMAIN funIn.basics[i].fetches :
       \/ funIn.basics[i].fetches[h].balance = AllNodesFailed
       \/ funIn.basics[i].fetches[h].supply = AllNodesFailed

\* C37: node-outage suppression. An asset for which a balance or supply fetch
\* of the pass failed with "all node is not working" is not in the alert
\* message of the pass, whichever token the failure occurred on and whatever
\* other fetches failed for later tokens of the asset.
C37_NodeOutageSuppressed ==
    (AlarmDone /\ ~funOut.panic) =>
      \A i \in 1..Len(funIn.basics) :
         NodeOutage(i) => PropertyBasics[funIn.basics[i].basic].Name \notin AlertAssets

\* C37 for the assets whose last failed fetch is the node outage.
LastOutageSuppressed ==
    (AlarmDone /\ ~funOut.panic) =>
      \A d \in Details :
         d.Reason = "all node is not working" => d.BasicName \notin AlertAssets

(* ------------------------------------------------------------------ *)
(* Reconciliation passes one after the other                           *)
(* ------------------------------------------------------------------ *)

\* What a pass reads: no basic, or one basic with the answers of the nodes and
\* of the external lookup: ETH (outside the exclusion list), O3 (of the list),
\* or USDT (of the list, with the external lookup, which may panic).
RepeatInputs ==
    {<<>>} \cup {<<x>> : x \in AlarmInputsOf(4) \cup AlarmInputsOf(6) \cup AlarmInputsOf(2)}

\* Up to MaxRecords passes.
InitRepeat ==
    /\ InitStore
    /\ category = "chain"
    /\ funIn \in [kind : {"passes"}, passes : [1..MaxRecords -> RepeatInputs]]
    /\ funOut = NoResult

SpecRepeat == InitRepeat /\ [][NextAlarm]_vars

PassesDone == IF funIn.kind = "passes" /\ funOut # NoResult THEN Len(funOut.outs) ELSE 0

\* What the values one pass reads determine on their own: the details and the
\* alert of a call of startCheckAssetAlarm that starts from nothing.
AlarmOutcome(inputs) ==
    LET out == CheckAssets(inputs, 1, IdleAlarmTask)
    IN  [panic |-> out.panic, err |-> FALSE,
         resAssetDetails |-> out.resAssetDetails,
         extraAssetDetails |-> out.extraAssetDetails,
         alert |-> IF out.panic THEN NoAlert ELSE sendDing(out.resAssetDetails)]

\* What a pass whose read of the basics fails returns: nothing but the error.
AlarmReadFailed ==
    [panic |-> FALSE, err |-> TRUE, resAssetDetails |-> <<>>,
     extraAssetDetails |-> <<>>, alert |-> NoAlert]

\* C33: reconciliation is stateless across passes. The details and the alert
\* of every pass that has ended are the ones the values read during that pass
\* determine on their own, whatever the storage of the call held from the
\* passes before it; so two passes that read the same catalog, prices, balances
\* and supplies produce the same details and the same alert.
C33_StatelessAcrossPasses ==
    /\ \A i \in 1..PassesDone :
          funOut.outs[i] = IF funOut.outs[i].err THEN AlarmReadFailed
                           ELSE AlarmOutcome(funIn.passes[i])
    /\ \A i, j \in 1..PassesDone :
          (/\ funIn.passes[i] = funIn.passes[j]
           /\ ~funOut.outs[i].err /\ ~funOut.outs[j].err) =>
             funOut.outs[i] = funOut.outs[j]

\* A pass has sent an alert for ETH and left its details behind, and a later
\* pass that read the same values has sent the same alert again.
C33_Witness ==
    /\ PassesDone = MaxRecords
    /\ alarmTask.pc = "idle"
    /\ funIn.passes[1] = funIn.passes[MaxRecords]
    /\ funOut.outs[1].alert = [sent |-> TRUE, assets |-> <<"ETH">>]
    /\ funOut.outs[MaxRecords].alert = [sent |-> TRUE, assets |-> <<"ETH">>]
    /\ Len(funOut.outs[MaxRecords].resAssetDetails) = 1

\* A later pass has ended after a pass that read other values and alerted.
LaterPassAfterAlert ==
    /\ PassesDone = MaxRecords
    /\ funIn.passes[1] # funIn.passes[MaxRecords]
    /\ funOut.outs[1].alert.sent
    /\ ~funOut.outs[MaxRecords].alert.sent
    /\ Len(funOut.outs[MaxRecords].extraAssetDetails) = 1

(* ------------------------------------------------------------------ *)
(* BotController.checkTxs: the alarms of stuck transactions            *)
(* ------------------------------------------------------------------ *)

\* The source hashes of the transactions getTxs may list.
TxHashes == {"0xa", "0xb"}

\* The lists getTxs returns: the rows of a join, so that a source hash may be
\* listed more than once.
BotTxLists ==
    {<<>>} \cup {<<a>> : a \in TxHashes} \cup {<<a, b>> : a, b \in TxHashes}

\* The goroutines that call checkTxs: the loop of RunChecks (313-318) and the
\* handler CheckTxs of a request (294-302).
BotCallers == {"ticker", "request"}

\* The locals of a call of checkTxs: the list, the position of the loop of
\* line 343, and what the run has done: before, ALARMS as the run found it;
\* cards, the calls of PostDingCard it made.
BotTaskIdle == [pc |-> "idle", txs |-> <<>>, i |-> 0, before |-> {}, cards |-> <<>>]

\* No run yet: ALARMS is empty (line 41), no card has been delivered.
BotIdle ==
    [runs |-> 0, ALARMS |-> {}, posted |-> [h \in TxHashes |-> 0],
     task |-> [g \in BotCallers |-> BotTaskIdle]]

\* The transaction the loop of line 343 is at.
BotTx(g) == funOut.task[g].txs[funOut.task[g].i]

\* The other goroutine.
OtherCaller(g) == CHOOSE o \in BotCallers : o # g

\* ALARMS has no lock: an access of the map meets a write of the other
\* goroutine, or writes while the other goroutine reads.
MapRace(g, write) ==
    LET o == funOut.task[OtherCaller(g)].pc
    IN  o = "348" \/ (write /\ o = "344")

\* What a racing access of the map may do: the runtime ends the process
\* (fatal error: concurrent map writes; recover does not catch it), or the
\* access goes through.
RaceOutcomes(g, write) == IF MapRace(g, write) THEN BOOLEAN ELSE {FALSE}

\* Line 343: the next transaction of the list, or the return of line 366.
BotAdvance(t) ==
    IF t.i < Len(t.txs) THEN [t EXCEPT !.pc = "344", !.i = t.i + 1]
    ELSE [t EXCEPT !.pc = "idle"]

\* Lines 328-334: a call of checkTxs begins; an error of getTxs returns.
checkTxs_331(g) ==
    /\ funIn.kind = "bot"
    /\ ~crashed
    /\ funOut.task[g].pc = "idle"
    /\ funOut.runs < MaxRuns
    /\ \E err \in BOOLEAN, txs \in BotTxLists :
         /\ err => txs = <<>>
         /\ funOut' = [funOut EXCEPT
                         !.runs = @ + 1,
                         !.task[g] = [BotTaskIdle EXCEPT
                                        !.pc = IF err THEN "idle" ELSE "339",
                                        !.txs = txs,
                                        !.before = funOut.ALARMS]]
    /\ UNCHANGED <<chainVars, assetVars, tokens, dstTransfer, tokenStat, category, faults,
                   op, runVars, passVars, funIn, crashed>>

\* Lines 335-342: an error of checkFees returns before the loop.
checkTxs_339(g) ==
    /\ funIn.kind = "bot"
    /\ ~crashed
    /\ funOut.task[g].pc = "339"
    /\ \E err \in BOOLEAN :
         funOut' = [funOut EXCEPT
                      !.task[g] = IF err THEN [@ EXCEPT !.pc = "idle"]
                                  ELSE BotAdvance(@)]
    /\ UNCHANGED <<chainVars, assetVars, tokens, dstTransfer, tokenStat, category, faults,
                   op, runVars, passVars, funIn, crashed>>

\* Lines 344-347: the hash is looked up in ALARMS; a transaction whose hash is
\* recorded is passed over.
checkTxs_344(g) ==
    /\ funIn.kind = "bot"
    /\ ~crashed
    /\ funOut.task[g].pc = "344"
    /\ \E fatal \in RaceOutcomes(g, FALSE) :
         /\ crashed' = fatal
         /\ funOut' = IF fatal THEN funOut
                      ELSE [funOut EXCEPT
                              !.task[g] = IF BotTx(g) \in funOut.ALARMS
                                          THEN BotAdvance(@)
                                          ELSE [@ EXCEPT !.pc = "348"]]
    /\ UNCHANGED <<chainVars, assetVars, tokens, dstTransfer, tokenStat, category, faults,
                   op, runVars, passVars, funIn>>

\* Lines 348-361: the hash is recorded and the card is built; a panic of
\* ParseBotTx ends the loop and is recovered by the deferred function (322-326).
checkTxs_348(g) ==
    /\ funIn.kind = "bot"
    /\ ~crashed
    /\ funOut.task[g].pc = "348"
    /\ \E fatal \in RaceOutcomes(g, TRUE), panic \in BOOLEAN :
         /\ crashed' = fatal
         /\ funOut' = IF fatal THEN funOut
                      ELSE [funOut EXCEPT
                              !.ALARMS = @ \cup {BotTx(g)},
                              !.task[g].pc = IF panic THEN "idle" ELSE "362"]
    /\ UNCHANGED <<chainVars, assetVars, tokens, dstTransfer, tokenStat, category, faults,
                   op, runVars, passVars, funIn>>

\* Lines 362-365: the card is handed to PostDingCard, whose error is logged.
checkTxs_362(g) ==
    /\ funIn.kind = "bot"
    /\ ~crashed
    /\ funOut.task[g].pc = "362"
    /\ \E err \in BOOLEAN :
         funOut' = [funOut EXCEPT
                      !.posted[BotTx(g)] = IF err THEN @ ELSE @ + 1,
                      !.task[g] = BotAdvance([@ EXCEPT
                                     !.cards = Append(@, [Hash |-> BotTx(g),
                                                          err |-> err])])]
    /\ UNCHANGED <<chainVars, assetVars, tokens, dstTransfer, tokenStat, category, faults,
                   op, runVars, passVars, funIn, crashed>>

InitBot ==
    /\ InitStore
    /\ category = "chain"
    /\ funIn = [kind |-> "bot"]
    /\ funOut = BotIdle

NextBot ==
    \E g \in BotCallers :
       \/ checkTxs_331(g)
       \/ checkTxs_339(g)
       \/ checkTxs_344(g)
       \/ checkTxs_348(g)
       \/ checkTxs_362(g)

SpecBot == InitBot /\ [][NextBot]_vars

\* The step in which goroutine g hands a card to PostDingCard.
BotPostStep(g) ==
    /\ funOut.task[g].pc = "362"
    /\ funOut'.task[g] # funOut.task[g]

\* C38: stuck-transaction alarm deduplication. Across the runs of checkTxs of
\* one process a card is delivered at most once per source transaction hash,
\* and a hash that was recorded in ALARMS before a run gets no card in that run.
C38_AlarmOncePerHash ==
    [][funIn.kind = "bot" =>
         /\ \A h \in TxHashes : funOut'.posted[h] <= 1
         /\ \A g \in BotCallers :
               BotPostStep(g) => BotTx(g) \notin funOut.task[g].before]_vars

\* The second half of C38 alone: a run hands no card to PostDingCard for a
\* hash that was recorded in ALARMS when the run began.
AlarmSkippedOnLaterRun ==
    [][funIn.kind = "bot" =>
         \A g \in BotCallers :
            BotPostStep(g) => BotTx(g) \notin funOut.task[g].before]_vars

\* A hash a card was delivered for is recorded in ALARMS.
PostedHashRecorded ==
    funIn.kind = "bot" =>
       \A h \in TxHashes : funOut.posted[h] > 0 => h \in funOut.ALARMS

(* ------------------------------------------------------------------ *)
(* EthereumHealthMonitor.NodeMonitor                                   *)
(* ------------------------------------------------------------------ *)

\* The nodes of the configuration.
NodeUrls == {"node-a", "node-b"}

\* math.MaxUint64, 18446744073709551615.
MaxUint64 ==
    [neg |-> FALSE,
     mag |-> <<5, 1, 6, 1, 5, 5, 9, 0, 7, 3, 7, 0, 4, 4, 7, 6, 4, 4, 8, 1>>]

NodeStatusOk == "OK"

\* What GetCurrentBlockHeight of a node's SDK answers.
HeightAnswers ==
    {[ok |-> FALSE, height |-> BigZero], [ok |-> TRUE, height |-> BigZero],
     [ok |-> TRUE, height |-> MaxUint64], [ok |-> TRUE, height |-> BigNat(100)],
     [ok |-> TRUE, height |-> BigNat(101)]}

\* A height fetch that takes every answered height.
GetCurrentHeight_AnyHeight(answer) ==
    IF ~answer.ok
    THEN [height |-> BigZero, err |-> "get current block height err: timeout"]
    ELSE [height |-> answer.height, err |-> ""]

\* Lines 83-93: the height of the node, or an error when the fetch failed or
\* answered 0 or the maximum.
GetCurrentHeight(answer) ==
    IF ~answer.ok \/ answer.height = BigZero \/ answer.height = MaxUint64
    THEN [height |-> BigZero,
          err |-> IF answer.ok THEN "get current block height err: %!s(<nil>)"
                  ELSE "get current block height err: timeout"]
    ELSE [height |-> answer.height, err |-> ""]

\* Lines 95-127: the error of the first contract call that fails, or none.
CheckAbiCall(abi) ==
    CASE abi = "ok" -> ""
      [] abi = "NewEthCrossChainManager" -> "call NewEthCrossChainManager error: timeout"
      [] abi = "FilterCrossChainEvent" ->
           "call FilterCrossChainEvent get lock events err: timeout"
      [] OTHER -> "call FilterVerifyHeaderAndExecuteTxEvent get unlock events err: timeout"

\* The orders a range over the SDKs may take.
NodeOrders(sdks) ==
    {o \in UNION {[1..n -> sdks] : n \in {Cardinality(sdks)}} :
        \A a, b \in DOMAIN o : a # b => o[a] # o[b]}

\* Lines 26-45: the monitor after NewEthereumHealthMonitor, nothing remembered.
\* nodeHeight and nodeStatus are the maps of the monitor; nodeStatuses and err
\* are what the last call returned; answers, what the nodes answered in that
\* call, and beforeHeight, nodeHeight as that call found it, are kept to tell
\* what the call had to do.
NodeIdle ==
    [done |-> FALSE, calls |-> 0, nodeHeight |-> <<>>, nodeStatus |-> <<>>,
     beforeHeight |-> <<>>, answers |-> <<>>, nodeStatuses |-> <<>>, err |-> FALSE]

\* The node the loop is at.
NodeUrl == funTask.order[funTask.i]

\* No answer of a height fetch is held.
NoHeightAnswer == [ok |-> FALSE, height |-> BigZero]

\* Lines 67-74: the status of the node is written and appended, and the loop
\* goes on to the next SDK, or to line 75 after the last one. answer and abi
\* are what the node answered to the height fetch and to the contract calls.
NodeStatusSet(err, height, answer, abi) ==
    LET url == NodeUrl
        text == IF err # "" THEN err ELSE NodeStatusOk
    IN  /\ funOut' = [funOut EXCEPT !.nodeStatus = (url :> text) @@ @]
        /\ funTask' =
             [funTask EXCEPT
                !.pc = IF funTask.i < Len(funTask.order) THEN "61" ELSE "76",
                !.i = @ + 1,
                !.height = BigZero,
                !.answer = NoHeightAnswer,
                !.answers = (url :> [height |-> answer, abi |-> abi]) @@ @,
                !.nodeStatuses = Append(@, [Url |-> url, Height |-> height,
                                            Status |-> <<text>>])]

\* Lines 51-53: the call starts with an empty list and ranges over the SDKs.
NodeMonitor_52 ==
    /\ funIn.kind = "node"
    /\ funTask.pc = "idle"
    /\ funOut.calls < MaxRuns
    /\ \E order \in NodeOrders(funIn.sdks) :
         funTask' = [pc |-> IF Len(order) > 0 THEN "61" ELSE "76", order |-> order,
                     i |-> 1, height |-> BigZero, answer |-> NoHeightAnswer,
                     answers |-> <<>>, beforeHeight |-> funOut.nodeHeight,
                     nodeStatuses |-> <<>>]
    /\ UNCHANGED <<funFrame, funOut>>

\* Lines 61-64 and 83-93: GetCurrentBlockHeight of the node is called; a
\* height taken is remembered at once, an error goes to lines 67-74.
NodeMonitor_61 ==
    /\ funIn.kind = "node"
    /\ funTask.pc = "61"
    /\ \E answer \in HeightAnswers :
         LET got == GetCurrentHeight(answer)
         IN  IF got.err = ""
             THEN /\ funOut' = [funOut EXCEPT
                                  !.nodeHeight = (NodeUrl :> got.height) @@ @]
                  /\ funTask' = [funTask EXCEPT !.pc = "98", !.height = got.height,
                                                !.answer = answer]
             ELSE NodeStatusSet(got.err, BigZero, answer, "ok")
    /\ UNCHANGED funFrame

\* Lines 96-104: NewEthCrossChainManager; its error is the status of the node
\* (102, 68).
NodeMonitor_98 ==
    /\ funIn.kind = "node"
    /\ funTask.pc = "98"
    /\ \E ok \in BOOLEAN :
         IF ok THEN /\ funTask' = [funTask EXCEPT !.pc = "112"]
                    /\ funOut' = funOut
         ELSE NodeStatusSet(CheckAbiCall("NewEthCrossChainManager"), funTask.height,
                            funTask.answer, "NewEthCrossChainManager")
    /\ UNCHANGED funFrame

\* Lines 105-118: FilterCrossChainEvent at the height before the remembered one.
NodeMonitor_112 ==
    /\ funIn.kind = "node"
    /\ funTask.pc = "112"
    /\ \E ok \in BOOLEAN :
         IF ok THEN /\ funTask' = [funTask EXCEPT !.pc = "120"]
                    /\ funOut' = funOut
         ELSE NodeStatusSet(CheckAbiCall("FilterCrossChainEvent"), funTask.height,
                            funTask.answer, "FilterCrossChainEvent")
    /\ UNCHANGED funFrame

\* Lines 119-127 and 67-74: FilterVerifyHeaderAndExecuteTxEvent; with no error
\* the status of the node is the OK value.
NodeMonitor_120 ==
    /\ funIn.kind = "node"
    /\ funTask.pc = "120"
    /\ \E abi \in {"ok", "FilterVerifyHeaderAndExecuteTxEvent"} :
         NodeStatusSet(CheckAbiCall(abi), funTask.height, funTask.answer, abi)
    /\ UNCHANGED funFrame

\* Lines 75-80: the list is written to the cache and returned; the error of
\* the cache write is logged and returned with the list.
NodeMonitor_76 ==
    /\ funIn.kind = "node"
    /\ funTask.pc = "76"
    /\ \E redisErr \in BOOLEAN :
         funOut' = [funOut EXCEPT
                      !.done = TRUE, !.calls = @ + 1,
                      !.beforeHeight = funTask.beforeHeight,
                      !.answers = funTask.answers,
                      !.nodeStatuses = funTask.nodeStatuses,
                      !.err = redisErr]
    /\ funTask' = IdleFunTask
    /\ UNCHANGED funFrame

\* The SDKs are the nodes whose NewEthereumSdk succeeded (lines 30-39).
InitNode ==
    /\ InitStore
    /\ category = "chain"
    /\ funIn \in [kind : {"node"}, sdks : SUBSET NodeUrls]
    /\ funOut = NodeIdle

\* The calls of NodeMonitor one after the other, each call of a node a step.
NextNode ==
    \/ NodeMonitor_52
    \/ NodeMonitor_61
    \/ NodeMonitor_98
    \/ NodeMonitor_112
    \/ NodeMonitor_120
    \/ NodeMonitor_76

SpecNode == InitNode /\ [][NextNode]_vars

\* A call of NodeMonitor has returned and none is under way.
NodeReturned == funIn.kind = "node" /\ funOut.calls > 0 /\ funTask.pc = "idle"

\* The height fetch of the node succeeded with a height that is neither 0 nor
\* the maximum.
HeightGood(answer) ==
    answer.height.ok /\ answer.height.height \notin {BigZero, MaxUint64}

\* C39: node health status. A NodeMonitor call returns exactly one status entry
\* per initialised node SDK; the status of a node is the OK value if and only
\* if its height fetch succeeded with a height that is neither 0 nor the
\* maximum uint64 and the contract event check succeeded, otherwise it is the
\* error text; the remembered height of a node is updated only on a successful
\* height fetch.
C39_NodeHealthStatus ==
    NodeReturned =>
      /\ Len(funOut.nodeStatuses) = Cardinality(funIn.sdks)
      /\ {funOut.nodeStatuses[i].Url : i \in 1..Len(funOut.nodeStatuses)} = funIn.sdks
      /\ \A i \in 1..Len(funOut.nodeStatuses) :
           LET url == funOut.nodeStatuses[i].Url
               answer == funOut.answers[url]
               text == funOut.nodeStatuses[i].Status[1]
           IN  /\ Len(funOut.nodeStatuses[i].Status) = 1
               /\ text = funOut.nodeStatus[url]
               /\ text = NodeStatusOk <=> (HeightGood(answer) /\ answer.abi = "ok")
               /\ ~HeightGood(answer) =>
                    /\ text \in {"get current block height err: timeout",
                                 "get current block height err: %!s(<nil>)"}
                    /\ url \in DOMAIN funOut.nodeHeight <=> url \in DOMAIN funOut.beforeHeight
                    /\ url \in DOMAIN funOut.nodeHeight =>
                          funOut.nodeHeight[url] = funOut.beforeHeight[url]
               /\ (HeightGood(answer) /\ answer.abi # "ok") =>
                    text = CheckAbiCall(answer.abi)
               /\ HeightGood(answer) => funOut.nodeHeight[url] = answer.height.height

\* In a later call one node answers the maximum height and keeps the height
\* remembered from an earlier call, and the other node is well at a new height.
C39_Witness ==
    /\ NodeReturned /\ funOut.calls >= 2 /\ funIn.sdks = NodeUrls
    /\ DOMAIN funOut.nodeHeight = NodeUrls /\ DOMAIN funOut.beforeHeight = NodeUrls
    /\ funOut.answers["node-a"].height = [ok |-> TRUE, height |-> MaxUint64]
    /\ funOut.nodeStatus["node-a"] = "get current block height err: %!s(<nil>)"
    /\ funOut.nodeHeight["node-a"] = BigNat(100)
    /\ funOut.nodeStatus["node-b"] = NodeStatusOk
    /\ funOut.nodeHeight["node-b"] = BigNat(101)
    /\ funOut.beforeHeight["node-b"] = BigNat(100)

(* ------------------------------------------------------------------ *)
(* StartCrossChainStats on every configuration                        *)
(* ------------------------------------------------------------------ *)

\* The intervals of the configuration Start hands to run, in its order.
IntervalNames ==
    {"TokenBasicStatsInterval", "TokenAmountCheckInterval", "TokenStatisticInterval",
     "ChainStatisticInterval", "ChainAddressCheckInterval", "AssetStatisticInterval",
     "AssetAdressInterval"}

\* Seconds; a field the configuration file leaves out is 0.
IntervalValues == {0, 60}

NilConfig == [nil |-> TRUE]

StatsConfigs == {NilConfig} \cup [IntervalNames -> IntervalValues]

NotStarted == [pc |-> "idle", tasks |-> [n \in IntervalNames |-> "none"]]

\* Lines 52-64 and 90-101: the checks of the server and of the configuration
\* panic before anything is scheduled; otherwise Start launches one goroutine
\* per interval and the call returns.
StartCrossChainStats ==
    /\ funIn.kind = "config"
    /\ funOut = NotStarted
    /\ ~crashed
    /\ IF \/ ~funIn.bridge
          \/ funIn.cfg = NilConfig
          \/ funIn.cfg["TokenBasicStatsInterval"] = 0
          \/ funIn.cfg["TokenAmountCheckInterval"] = 0
       THEN /\ funOut' = [funOut EXCEPT !.pc = "fatal"]
            /\ crashed' = TRUE
            /\ UNCHANGED started
       ELSE /\ funOut' = [pc |-> "returned", tasks |-> [n \in IntervalNames |-> "spawned"]]
            /\ started' = TRUE
            /\ UNCHANGED crashed
    /\ UNCHANGED <<chainVars, assetVars, tokens, dstTransfer, tokenStat, category, faults, op,
                   taskPc, inflight, cancelled, wg, stopPc, passVars, funIn>>

\* Lines 74-75: a launched goroutine registers with the wait group and makes
\* its ticker; time.NewTicker panics on an interval that is not positive, and a
\* panic of a goroutine ends the process.
RunNewTicker(n) ==
    /\ funIn.kind = "config"
    /\ ~crashed
    /\ funOut.tasks[n] = "spawned"
    /\ wg' = wg + 1
    /\ IF funIn.cfg[n] <= 0
       THEN /\ funOut' = [funOut EXCEPT !.tasks[n] = "panic"]
            /\ crashed' = TRUE
       ELSE /\ funOut' = [funOut EXCEPT !.tasks[n] = "select"]
            /\ UNCHANGED crashed
    /\ UNCHANGED <<chainVars, assetVars, tokens, dstTransfer, tokenStat, category, faults, op,
                   started, taskPc, inflight, cancelled, stopPc, passVars, funIn>>

InitStart ==
    /\ InitStore
    /\ category = "chain"
    /\ funIn \in [kind : {"config"}, bridge : BOOLEAN, cfg : StatsConfigs]
    /\ funOut = NotStarted

NextStart ==
    \/ StartCrossChainStats
    \/ \E n \in IntervalNames : RunNewTicker(n)

SpecStart == InitStart /\ [][NextStart]_vars

\* C15: configuration errors are fatal before scheduling. With no configuration
\* or with one of the seven intervals missing (zero), StartCrossChainStats does
\* not return normally and no task is ever started.
C15_ConfigErrorsFatal ==
    (funIn.kind = "config"
     /\ (funIn.cfg = NilConfig \/ \E n \in IntervalNames : funIn.cfg[n] = 0))
    => /\ funOut.pc # "returned"
       /\ \A n \in IntervalNames : funOut.tasks[n] = "none"

====
